---------------------------- MODULE Spec2Model ----------------------------
(***************************************************************************)
(* A model of Webmagic: the CSS cachebreaker rewriter (cssfixer.fixUrls,   *)
(* pathmanip), the processed-CSS cache of untwist.CSSResource, and the     *)
(* trailing-slash policy of untwist.BetterResource.getChildWithDefault.    *)
(*                                                                         *)
(* Text is a sequence of atoms.  An atom is a tagged tuple: Lit(s) is the  *)
(* literal text s, md5hexdigest(c) is the hex digest of the text c, and    *)
(* Banner(p, m) is the warning rule fixUrls appends.  A URL path is text   *)
(* whose "/" atoms separate its segments; a segment is the text between    *)
(* two separators, and a file-system path is a sequence of segments.       *)
(***************************************************************************)
EXTENDS Integers, Sequences, FiniteSets, TLC

VARIABLES
    fs,         \* the files on disk: file-system path -> bytes
    clock,      \* the time FileCache's getTime returns
    fileCache,  \* FileCache: file-system path -> what was last read and when
    cssCache,   \* BetterFile._cssCache: file-system path -> _CSSCacheEntry
    last,       \* the last _getProcessedCSS / getCacheBreaker call and its outcome
    fixIn,      \* fixUrls under test: the CSS content handed to it
    fixOut,     \* fixUrls under test: what it returned
    inflight,   \* how many CSSResources made for a request are not yet rendered
    treeIn,     \* resource lookup under test: the tree and the request
    treeOut,    \* resource lookup under test: the resource site.getResourceFor returned
    httpRequest, \* a request: what it received and the response built on it so far
    outcome,    \* what the last call under test returned or raised
    stopper,    \* a CsrfStopper: its secret
    reactor,    \* the clock of a WaitResource: its time and its delayed calls
    tracking    \* a ConnectionTrackingSite: its connections, and its channels

vars == <<fs, clock, fileCache, cssCache, last, inflight, fixIn, fixOut, treeIn, treeOut, httpRequest, outcome,
         stopper, reactor, tracking>>

-----------------------------------------------------------------------------
(* Text *)

Lit(s) == <<"lit", s>>

md5hexdigest(c) == <<"md5", c>>

URLOPEN == Lit("url(")
CLOSE   == Lit(")")
SLASH   == Lit("/")
NEWLINE == Lit("\n")
HTTP    == Lit("http://")
HTTPS   == Lit("https://")
DOT     == Lit(".")
DOTDOT  == Lit("..")
CB      == Lit("?cb=")
NOTFOUND == Lit("not-found")

Seg(s) == <<Lit(s)>>
EmptySeg == <<>>

Min(S) == CHOOSE x \in S : \A y \in S : x <= y

\* A local variable: v is evaluated once, and F works with its value
With(v, F(_)) == CHOOSE r \in {F(x) : x \in {v}} : TRUE

\* s[i..] as a sequence
Tail_(s, i) == SubSeq(s, i, Len(s))

\* str.find(old): the first index at which old occurs in s, 0 if none
Find(s, old) ==
    LET hits == {i \in 1..(Len(s) - Len(old) + 1) :
                    SubSeq(s, i, i + Len(old) - 1) = old}
    IN  IF hits = {} THEN 0 ELSE Min(hits)

\* str.replace(old, new, 1): the first occurrence of old replaced by new
ReplaceFirst(s, old, new) ==
    LET i == Find(s, old)
    IN  IF i = 0 THEN s
        ELSE SubSeq(s, 1, i - 1) \o new \o SubSeq(s, i + Len(old), Len(s))

\* The first match of the regular expression url\(.*?\) at or after index i:
\* <<start, end>>, or <<0, 0>>.  "." does not match a newline, so an opening
\* that meets a newline before its ")" is not a match.
RECURSIVE FirstMatch(_, _)
FirstMatch(s, i) ==
    LET opens == {j \in i..Len(s) : s[j] = URLOPEN}
    IN  IF opens = {} THEN <<0, 0>>
        ELSE LET j == Min(opens)
                 stops == {k \in (j + 1)..Len(s) : s[k] \in {CLOSE, NEWLINE}}
             IN  IF stops # {} /\ s[Min(stops)] = CLOSE
                 THEN <<j, Min(stops)>>
                 ELSE FirstMatch(s, j + 1)

\* re.findall(r'url\(.*?\)', s): the non-overlapping matches, left to right
RECURSIVE FindAll(_, _)
FindAll(s, i) ==
    LET m == FirstMatch(s, i)
    IN  IF m[1] = 0 THEN <<>>
        ELSE <<SubSeq(s, m[1], m[2])>> \o FindAll(s, m[2] + 1)

\* _getUrlsHack: m[4:-1] of every match, the text between "url(" and ")"
_getUrlsHack(s) ==
    LET ms == FindAll(s, 1)
    IN  [n \in 1..Len(ms) |-> SubSeq(ms[n], 2, Len(ms[n]) - 1)]

\* "url(%s)" % x
UrlOf(x) == <<URLOPEN>> \o x \o <<CLOSE>>

\* str.split('/')
RECURSIVE Split(_)
Split(s) ==
    LET seps == {i \in 1..Len(s) : s[i] = SLASH}
    IN  IF seps = {} THEN <<s>>
        ELSE <<SubSeq(s, 1, Min(seps) - 1)>> \o Split(Tail_(s, Min(seps) + 1))

\* '/'.join(segments)
RECURSIVE Join(_)
Join(segs) ==
    IF Len(segs) = 0 THEN <<>>
    ELSE IF Len(segs) = 1 THEN segs[1]
    ELSE segs[1] \o <<SLASH>> \o Join(Tail(segs))

\* urllib.unquote, atom by atom: a percent-escape becomes the octet it names
UnquoteAtom(a) ==
    CASE a = Lit("t%20w.png") -> <<Lit("t w.png")>>
      [] a = Lit("%2F")       -> <<SLASH>>
      [] a = Lit("%2E%2E")    -> <<DOTDOT>>
      [] OTHER                -> <<a>>

RECURSIVE unquote(_)
unquote(s) == IF s = <<>> THEN <<>> ELSE UnquoteAtom(Head(s)) \o unquote(Tail(s))

-----------------------------------------------------------------------------
(* urlparse.urljoin, for a base and a reference that are both paths *)

\* "while '.' in segments: segments.remove('.')"
RemoveDots(segs) == SelectSeq(segs, LAMBDA x : x # <<DOT>>)

\* The loop that deletes "name/.." pairs: the first i with segments[i] == '..'
\* and segments[i-1] not in ('', '..') is deleted with its predecessor, until
\* there is none.  The first and the last segment are never looked at.
RECURSIVE CollapseParents(_)
CollapseParents(segs) ==
    LET hits == {i \in 2..(Len(segs) - 1) :
                    /\ segs[i] = <<DOTDOT>>
                    /\ segs[i - 1] \notin {EmptySeg, <<DOTDOT>>}}
    IN  IF hits = {} THEN segs
        ELSE LET i == Min(hits)
             IN  CollapseParents(SubSeq(segs, 1, i - 2) \o Tail_(segs, i + 1))

\* A variant that joins without dropping the last segment of the base
urljoin_M1(base, url) ==
    IF Head(url) = SLASH THEN url ELSE Join(CollapseParents(Split(base) \o Split(url)))

urljoin(base, url) ==
    IF base = <<>> THEN url
    ELSE IF url = <<>> THEN base
    ELSE IF Head(url) = SLASH THEN url
    ELSE
        LET bsegs == Split(base)
            s0 == SubSeq(bsegs, 1, Len(bsegs) - 1) \o Split(url)
            s1 == IF s0[Len(s0)] = <<DOT>>
                  THEN [s0 EXCEPT ![Len(s0)] = EmptySeg] ELSE s0
            s2 == RemoveDots(s1)
            s3 == CollapseParents(s2)
            s4 == IF s3 = <<EmptySeg, <<DOTDOT>>>>
                  THEN <<EmptySeg, EmptySeg>>
                  ELSE IF Len(s3) >= 2 /\ s3[Len(s3)] = <<DOTDOT>>
                  THEN SubSeq(s3, 1, Len(s3) - 2) \o <<EmptySeg>>
                  ELSE s3
        IN  Join(s4)

-----------------------------------------------------------------------------
(* Resources.  A resource is a record: kind says which class it is, node is *)
(* its place in the site's tree of registered resources (0 if it was made   *)
(* for the request), path is the file it serves, location is where a        *)
(* redirect points, breaker is what its own getCacheBreaker returns.        *)

NoText == <<>>
NoPath == <<>>

Res(kind, node, path, code, location, breaker) ==
    [kind |-> kind, node |-> node, path |-> path, code |-> code,
     location |-> location, breaker |-> breaker]

\* twisted.web's NoResource, what Resource.getChild and static.File answer
NoResource == Res("NoResource", 0, NoPath, 404, NoText, NoText)

HelpfulNoResource == Res("HelpfulNoResource", 0, NoPath, 404, NoText, NoText)

RedirectingResource(code, location) ==
    Res("RedirectingResource", 0, NoPath, code, location, NoText)

\* static.File / BetterFile made by createSimilarFile for a path
FileResource(path) == Res("File", 0, path, 0, NoText, NoText)

\* static.File.directoryListing()
DirectoryLister(path) == Res("DirectoryLister", 0, path, 0, NoText, NoText)

\* the CSSResource the '.css' processor makes for a request
CSSResource(path) == Res("CSSResource", 0, path, 0, NoText, NoText)

\* A node of a tree of registered resources
Node(kind, isLeaf, children, path, breaker) ==
    [kind |-> kind, isLeaf |-> isLeaf, children |-> children, path |-> path,
     breaker |-> breaker]

NoChildren == <<>>

\* the resource registered as node n of the tree
NodeResource(tree, n) ==
    Res(tree[n].kind, n, tree[n].path, 0, NoText, tree[n].breaker)

\* resource.children, filled by putChild
children(tree, res) == IF res.node = 0 THEN NoChildren ELSE tree[res.node].children

isLeaf(tree, res) ==
    IF res.node # 0 THEN tree[res.node].isLeaf ELSE res.kind = "CSSResource"

\* isinstance(resource, ErrorPage)
IsErrorPage(res) == res.kind \in {"NoResource", "HelpfulNoResource"}

\* isinstance(resource, BetterResource)
IsBetterResource(res) ==
    res.kind \in {"BetterResource", "DynamicBetterResource", "CSSResource"}

\* A request, as far as resource lookup reads it
Request(postpath, prepath, uri, path) ==
    [postpath |-> postpath, prepath |-> prepath, uri |-> uri, path |-> path]

\* the directories of the served file tree
Dirs == {<<>>, <<Seg("sub")>>, <<Seg("sub"), Seg("in")>>}

\* the names whose extension is '.css'
CssNames == {Seg("style.css")}

exists(files, fpath) == fpath \in Dirs \/ fpath \in DOMAIN files

\* static.File.getChild, which BetterFile.getChild calls with the request
\* in the context
FileGetChild(files, res, path) ==
    IF res.path \notin Dirs THEN NoResource
    ELSE IF path # EmptySeg
    THEN IF path = <<DOTDOT>> THEN NoResource      \* filepath.InsecurePath
         ELSE LET fpath == IF path = <<DOT>> THEN res.path
                           ELSE Append(res.path, path)
              IN  IF ~exists(files, fpath) THEN NoResource
                  ELSE IF path \in CssNames THEN CSSResource(fpath)
                  ELSE FileResource(fpath)
    ELSE IF Append(res.path, Seg("index.html")) \in DOMAIN files
         THEN FileResource(Append(res.path, Seg("index.html")))
         ELSE DirectoryLister(res.path)

\* BetterResource.getChild
BetterGetChild(res, path, request) == HelpfulNoResource

\* the childResource of the test class DynamicBetterResource: BetterResource()
childResource == Res("BetterResource", 0, NoPath, 0, NoText, NoText)

\* DynamicBetterResource.getChild, which overrides BetterResource.getChild
DynamicGetChild(res, path, request) == childResource

\* self.getChild(path, request), by the class of self
self_getChild(res, path, request) ==
    IF res.kind = "DynamicBetterResource" THEN DynamicGetChild(res, path, request)
    ELSE BetterGetChild(res, path, request)

\* A variant that redirects to the URI itself, with no '/' appended
BetterGetChildWithDefault_M1(tree, res, path, request) ==
    IF path \notin DOMAIN children(tree, res)
    THEN self_getChild(res, path, request)
    ELSE
      LET child == NodeResource(tree, children(tree, res)[path])
      IN  IF isLeaf(tree, child) /\ request.postpath \notin {<<>>, <<EmptySeg>>}
          THEN HelpfulNoResource
          ELSE IF /\ request.postpath = <<>>
                  /\ request.prepath[Len(request.prepath)] # EmptySeg
                  /\ IsBetterResource(child)
          THEN IF ~(EmptySeg \in DOMAIN children(tree, child) \/ isLeaf(tree, child))
               THEN HelpfulNoResource
               ELSE RedirectingResource(301, request.uri)
          ELSE child

\* A variant that redirects without looking for an index child or a leaf
BetterGetChildWithDefault_M2(tree, res, path, request) ==
    IF path \notin DOMAIN children(tree, res)
    THEN self_getChild(res, path, request)
    ELSE
      LET child == NodeResource(tree, children(tree, res)[path])
      IN  IF isLeaf(tree, child) /\ request.postpath \notin {<<>>, <<EmptySeg>>}
          THEN HelpfulNoResource
          ELSE IF /\ request.postpath = <<>>
                  /\ request.prepath[Len(request.prepath)] # EmptySeg
                  /\ IsBetterResource(child)
          THEN RedirectingResource(301, request.uri \o <<SLASH>>)
          ELSE child

\* A variant that hands on a leaf whatever path is left over
BetterGetChildWithDefault_M3(tree, res, path, request) ==
    IF path \notin DOMAIN children(tree, res)
    THEN self_getChild(res, path, request)
    ELSE
      LET child == NodeResource(tree, children(tree, res)[path])
      IN  IF /\ request.postpath = <<>>
             /\ request.prepath[Len(request.prepath)] # EmptySeg
             /\ IsBetterResource(child)
          THEN IF ~(EmptySeg \in DOMAIN children(tree, child) \/ isLeaf(tree, child))
               THEN HelpfulNoResource
               ELSE RedirectingResource(301, request.uri \o <<SLASH>>)
          ELSE child

\* A variant that redirects also when the segment is empty
BetterGetChildWithDefault_M4(tree, res, path, request) ==
    IF path \notin DOMAIN children(tree, res)
    THEN self_getChild(res, path, request)
    ELSE
      LET child == NodeResource(tree, children(tree, res)[path])
      IN  IF isLeaf(tree, child) /\ request.postpath \notin {<<>>, <<EmptySeg>>}
          THEN HelpfulNoResource
          ELSE IF request.postpath = <<>> /\ IsBetterResource(child)
          THEN IF ~(EmptySeg \in DOMAIN children(tree, child) \/ isLeaf(tree, child))
               THEN HelpfulNoResource
               ELSE RedirectingResource(301, request.uri \o <<SLASH>>)
          ELSE child

\* A variant that redirects to a child of any class
BetterGetChildWithDefault_M5(tree, res, path, request) ==
    IF path \notin DOMAIN children(tree, res)
    THEN self_getChild(res, path, request)
    ELSE
      LET child == NodeResource(tree, children(tree, res)[path])
      IN  IF isLeaf(tree, child) /\ request.postpath \notin {<<>>, <<EmptySeg>>}
          THEN HelpfulNoResource
          ELSE IF /\ request.postpath = <<>>
                  /\ request.prepath[Len(request.prepath)] # EmptySeg
          THEN IF ~(EmptySeg \in DOMAIN children(tree, child) \/ isLeaf(tree, child))
               THEN HelpfulNoResource
               ELSE RedirectingResource(301, request.uri \o <<SLASH>>)
          ELSE child

\* A variant that answers the 404 page itself for a segment that is not
\* registered, without calling getChild
BetterGetChildWithDefault_M6(tree, res, path, request) ==
    IF path \notin DOMAIN children(tree, res)
    THEN HelpfulNoResource
    ELSE
      LET child == NodeResource(tree, children(tree, res)[path])
      IN  IF isLeaf(tree, child) /\ request.postpath \notin {<<>>, <<EmptySeg>>}
          THEN HelpfulNoResource
          ELSE IF /\ request.postpath = <<>>
                  /\ request.prepath[Len(request.prepath)] # EmptySeg
                  /\ IsBetterResource(child)
          THEN IF ~(EmptySeg \in DOMAIN children(tree, child) \/ isLeaf(tree, child))
               THEN HelpfulNoResource
               ELSE RedirectingResource(301, request.uri \o <<SLASH>>)
          ELSE child

\* BetterResource.getChildWithDefault; request is the request after
\* getChildForRequest moved path from postpath to prepath
BetterGetChildWithDefault(tree, res, path, request) ==
    IF path \notin DOMAIN children(tree, res)
    THEN self_getChild(res, path, request)
    ELSE
      LET child == NodeResource(tree, children(tree, res)[path])
      IN  IF isLeaf(tree, child) /\ request.postpath \notin {<<>>, <<EmptySeg>>}
          THEN HelpfulNoResource
          ELSE IF /\ request.postpath = <<>>
                  /\ request.prepath[Len(request.prepath)] # EmptySeg
                  /\ IsBetterResource(child)
          THEN IF ~(EmptySeg \in DOMAIN children(tree, child) \/ isLeaf(tree, child))
               THEN HelpfulNoResource
               ELSE RedirectingResource(301, request.uri \o <<SLASH>>)
          ELSE child

\* resource.getChildWithDefault(path, request), by the class of the resource
getChildWithDefault(tree, files, res, path, request) ==
    IF res.kind \in {"BetterResource", "DynamicBetterResource"}
    THEN BetterGetChildWithDefault(tree, res, path, request)
    ELSE IF path \in DOMAIN children(tree, res)
    THEN NodeResource(tree, children(tree, res)[path])
    ELSE IF res.kind \in {"File", "BreakerFile"} THEN FileGetChild(files, res, path)
    ELSE IF IsErrorPage(res) THEN res          \* ErrorPage.getChild returns self
    ELSE NoResource                            \* Resource.getChild

\* twisted.web.resource.getChildForRequest
RECURSIVE getChildForRequest(_, _, _, _)
getChildForRequest(tree, files, res, request) ==
    IF request.postpath # <<>> /\ ~isLeaf(tree, res)
    THEN LET pathElement == Head(request.postpath)
             moved == [request EXCEPT !.postpath = Tail(@),
                                      !.prepath = Append(@, pathElement)]
         IN  getChildForRequest(tree, files,
                 getChildWithDefault(tree, files, res, pathElement, moved), moved)
    ELSE res

\* DummyRequest.uri, which a request made by makeRequestForPath keeps
DummyUri == <<HTTP, Lit("dummy"), SLASH>>

\* pathmanip.makeRequestForPath
makeRequestForPath(path) ==
    Request(Tail(Split(unquote(path))), <<>>, DummyUri, path)

\* A site: the tree of registered resources and the node that is its root
Site(tree, root) == [tree |-> tree, root |-> root]

\* pathmanip.getResourceForPath
getResourceForPath(site, files, path) ==
    getChildForRequest(site.tree, files, NodeResource(site.tree, site.root),
                       makeRequestForPath(path))

\* pathmanip.getResourceForHref
getResourceForHref(site, files, request, href) ==
    getResourceForPath(site, files, urljoin(request.path, href))

-----------------------------------------------------------------------------
(* FileCache: the file-content provider.  An entry remembers the bytes     *)
(* read, the fingerprint of the file they were read from and the time of   *)
(* the last check; a file is checked again once the entry is MaxAge old.   *)

\* FileCache(getTime, 1), as the tests build it
MaxAge == 1

NoEntries == <<>>

\* the fingerprint FileCache compares: it changes when the bytes change
Fingerprint(bytes) == md5hexdigest(bytes)

\* What a call returns: ok is FALSE when it raised; fc is the FileCache
\* after the call.
Returned(value, maybeNew, fc) ==
    [ok |-> TRUE, value |-> value, maybeNew |-> maybeNew, fc |-> fc]

Raised(fc) == [ok |-> FALSE, value |-> NoText, maybeNew |-> FALSE, fc |-> fc]

\* FileCache.getContent(path): (bytes, maybeNew); it raises when the file
\* has to be read and cannot be
getContent(fc, files, now, path) ==
    IF path \in DOMAIN fc /\ now - fc[path].checked < MaxAge
    THEN Returned(fc[path].content, FALSE, fc)
    ELSE IF path \notin DOMAIN files THEN Raised(fc)
    ELSE IF path \in DOMAIN fc /\ fc[path].fingerprint = Fingerprint(files[path])
    THEN Returned(fc[path].content, FALSE,
                  [fc EXCEPT ![path].checked = now])
    ELSE Returned(files[path], TRUE,
                  (path :> [content |-> files[path],
                            fingerprint |-> Fingerprint(files[path]),
                            checked |-> now])
                  @@ fc)

\* FileCache.getContent(path, transform=md5hexdigest)
getContentMd5(fc, files, now, path) ==
    With(getContent(fc, files, now, path), LAMBDA r :
        IF r.ok THEN [r EXCEPT !.value = md5hexdigest(r.value)] ELSE r)
-----------------------------------------------------------------------------
(* pathmanip: cachebreakers *)

\* Python's None, as a breaker
None == <<"none">>

\* whether the resource has a .path attribute
HasPath(res) == res.kind \in {"File", "BreakerFile", "DirectoryLister"}

\* whether getattr(resource, 'getCacheBreaker', None) finds a method
HasGetCacheBreaker(res) == res.kind \in {"BreakerFile", "CSSResource"}

\* resource.getCacheBreaker().  CSSResource.getCacheBreaker returns the
\* digest of the cached entry.  With no entry it first calls _getProcessedCSS
\* for that style sheet, which for a style sheet that refers to itself never
\* returns; the style sheets drawn here refer only to a style sheet that has
\* an entry, so that branch is left as a call that does not return a value.
OwnCacheBreaker(fc, css, res) ==
    IF res.kind = "CSSResource"
    THEN IF res.path \in DOMAIN css
         THEN Returned(css[res.path].digest, FALSE, fc)
         ELSE Raised(fc)
    ELSE Returned(res.breaker, FALSE, fc)

\* pathmanip.getBreakerForResource
getBreakerForResource(fc, css, files, now, res) ==
    IF IsErrorPage(res) THEN Returned(None, FALSE, fc)
    ELSE IF HasGetCacheBreaker(res) THEN OwnCacheBreaker(fc, css, res)
    ELSE IF ~HasPath(res) THEN Raised(fc)          \* AttributeError
    ELSE getContentMd5(fc, files, now, res.path)

\* pathmanip.makeLinkWithBreaker
makeLinkWithBreaker(href, breakerOrNone) ==
    href \o <<CB, IF breakerOrNone = None THEN NOTFOUND ELSE breakerOrNone>>

-----------------------------------------------------------------------------
(* cssfixer.fixUrls *)

ReferencedFile(path, lasthash) == [path |-> path, lasthash |-> lasthash]

\* the "body:before { content: "Warning: ..." }" rule, formatted with the
\* request path and the hrefs that got no cachebreaker
Banner(path, missingBreakers) == <<"banner", path, missingBreakers>>

\* href.startswith('http://') or href.startswith('https://')
IsAbsolute(href) == href # <<>> /\ href[1] \in {HTTP, HTTPS}

\* What fixUrls has so far: the content, the references, the hrefs without
\* a breaker, the FileCache, whether it has raised, and (for the record) the
\* resources getResourceForHref returned, in order.
FixState(content, references, missingBreakers, fc, ok, looked) ==
    [content |-> content, references |-> references,
     missingBreakers |-> missingBreakers, fc |-> fc, ok |-> ok,
     looked |-> looked]

\* One pass of the body of "for href in urls"
FixOne(st, css, files, now, site, request, href) ==
    IF IsAbsolute(href) THEN st
    ELSE
      With(getResourceForHref(site, files, request, href), LAMBDA staticResource :
      With(getBreakerForResource(st.fc, css, files, now, staticResource), LAMBDA b :
      LET looked == Append(st.looked, staticResource)
      IN  IF ~b.ok THEN [st EXCEPT !.ok = FALSE, !.fc = b.fc, !.looked = looked]
          ELSE IF b.value # None /\ ~HasPath(staticResource)
          THEN [st EXCEPT !.ok = FALSE, !.fc = b.fc,     \* AttributeError
                          !.looked = looked]
          ELSE
            LET references == IF b.value # None
                    THEN Append(st.references,
                                ReferencedFile(staticResource.path, b.value))
                    ELSE st.references
                missingBreakers == IF b.value # None THEN st.missingBreakers
                                   ELSE Append(st.missingBreakers, href)
                replaced == ReplaceFirst(st.content, UrlOf(href),
                                UrlOf(makeLinkWithBreaker(href, b.value)))
                content == IF missingBreakers # <<>>
                           THEN Append(replaced, Banner(request.path, missingBreakers))
                           ELSE replaced
            IN  FixState(content, references, missingBreakers, b.fc, TRUE, looked)))

RECURSIVE FixLoop(_, _, _, _, _, _, _)
FixLoop(st, css, files, now, site, request, urls) ==
    IF urls = <<>> \/ ~st.ok THEN st
    ELSE FixLoop(FixOne(st, css, files, now, site, request, Head(urls)),
                 css, files, now, site, request, Tail(urls))

\* cssfixer.fixUrls(fileCache, request, content): (content, references)
fixUrls(fc, css, files, now, site, request, content) ==
    FixLoop(FixState(content, <<>>, <<>>, fc, TRUE, <<>>),
            css, files, now, site, request, _getUrlsHack(content))
-----------------------------------------------------------------------------
(* untwist.CSSResource *)

_CSSCacheEntry(processed, digest, references) ==
    [processed |-> processed, digest |-> digest, references |-> references]

\* What a CSSResource call gives back: whether it returned, what it
\* returned, the FileCache and the CSS cache after it, how many times it ran
\* _process, whether FileCache returned the source and what it said of it,
\* and whether it looked at the references and found one updated.
CssOutcome(ok, value, fc, css, ran, read, maybeNew, checked, updated) ==
    [ok |-> ok, value |-> value, fc |-> fc, css |-> css, ran |-> ran,
     read |-> read, maybeNew |-> maybeNew, checked |-> checked,
     updated |-> updated]

\* '/* CSSResource processed %s */\n%s' % (md5hexdigest(content), fixedContent)
ProcessedHeader(content) ==
    <<Lit("/* CSSResource processed "), md5hexdigest(content), Lit(" */\n")>>

\* CSSResource._process
_process(fc, css, files, now, site, request, content) ==
    With(fixUrls(fc, css, files, now, site, request, content), LAMBDA fixed :
        [fixed EXCEPT !.content = ProcessedHeader(content) \o fixed.content])

\* A variant of the loop below that takes equal hashes for an update
RECURSIVE RefsLoop_M1(_, _, _, _)
RefsLoop_M1(fc, files, now, refs) ==
    IF refs = <<>> THEN Returned(FALSE, FALSE, fc)
    ELSE With(getContentMd5(fc, files, now, Head(refs).path), LAMBDA r :
             IF ~r.ok THEN Raised(r.fc)
             ELSE IF Head(refs).lasthash = r.value THEN Returned(TRUE, FALSE, r.fc)
             ELSE RefsLoop_M1(r.fc, files, now, Tail(refs)))

\* The loop of _haveUpdatedReferences over entry.references
RECURSIVE RefsLoop(_, _, _, _)
RefsLoop(fc, files, now, refs) ==
    IF refs = <<>> THEN Returned(FALSE, FALSE, fc)
    ELSE With(getContentMd5(fc, files, now, Head(refs).path), LAMBDA r :
             IF ~r.ok THEN Raised(r.fc)
             ELSE IF Head(refs).lasthash # r.value THEN Returned(TRUE, FALSE, r.fc)
             ELSE RefsLoop(r.fc, files, now, Tail(refs)))

\* CSSResource._haveUpdatedReferences
_haveUpdatedReferences(fc, css, files, now, path) ==
    IF path \notin DOMAIN css THEN Returned(FALSE, FALSE, fc)
    ELSE RefsLoop(fc, files, now, css[path].references)

\* A variant that stores the digest of the source instead of the digest of
\* the processed content
Recompute_M1(fc, css, files, now, site, request, path, content, maybeNew, checked, updated) ==
    With(_process(fc, css, files, now, site, request, content), LAMBDA p :
        IF ~p.ok
        THEN CssOutcome(FALSE, NoText, p.fc, css, 1, TRUE, maybeNew, checked, updated)
        ELSE CssOutcome(TRUE, p.content, p.fc,
                 (path :> _CSSCacheEntry(p.content, md5hexdigest(content),
                                         p.references)) @@ css,
                 1, TRUE, maybeNew, checked, updated))

\* A variant that keeps the references of the entry it overwrites
Recompute_M2(fc, css, files, now, site, request, path, content, maybeNew, checked, updated) ==
    With(_process(fc, css, files, now, site, request, content), LAMBDA p :
        IF ~p.ok
        THEN CssOutcome(FALSE, NoText, p.fc, css, 1, TRUE, maybeNew, checked, updated)
        ELSE CssOutcome(TRUE, p.content, p.fc,
                 (path :> _CSSCacheEntry(p.content, md5hexdigest(p.content),
                             IF path \in DOMAIN css THEN css[path].references
                             ELSE p.references)) @@ css,
                 1, TRUE, maybeNew, checked, updated))

\* The tail of _getProcessedCSS: process, store the entry, return
Recompute(fc, css, files, now, site, request, path, content, maybeNew, checked, updated) ==
    With(_process(fc, css, files, now, site, request, content), LAMBDA p :
        IF ~p.ok
        THEN CssOutcome(FALSE, NoText, p.fc, css, 1, TRUE, maybeNew, checked, updated)
        ELSE CssOutcome(TRUE, p.content, p.fc,
                 (path :> _CSSCacheEntry(p.content, md5hexdigest(p.content),
                                         p.references)) @@ css,
                 1, TRUE, maybeNew, checked, updated))

\* A variant that drops the entry of the path when the source cannot be read
_getProcessedCSS_M1(fc, css, files, now, site, request, path) ==
    With(getContent(fc, files, now, path), LAMBDA c :
        IF ~c.ok
        THEN CssOutcome(FALSE, NoText, c.fc, [p \in DOMAIN css \ {path} |-> css[p]],
                        0, FALSE, FALSE, FALSE, FALSE)
        ELSE With(IF c.maybeNew THEN Returned(FALSE, FALSE, c.fc)
                  ELSE _haveUpdatedReferences(c.fc, css, files, now, path),
                  LAMBDA h :
             IF ~h.ok
             THEN CssOutcome(FALSE, NoText, h.fc, css, 0, TRUE, FALSE, TRUE, FALSE)
             ELSE IF ~c.maybeNew /\ ~h.value /\ path \in DOMAIN css
             THEN CssOutcome(TRUE, css[path].processed, h.fc, css, 0,
                             TRUE, FALSE, TRUE, FALSE)
             ELSE Recompute(h.fc, css, files, now, site, request, path,
                            c.value, c.maybeNew, ~c.maybeNew, h.value)))

\* CSSResource._getProcessedCSS.  "not maybeNew and not
\* self._haveUpdatedReferences()" looks at the references only when the
\* source is not new: h is what that gave, and no update when it was not asked.
_getProcessedCSS(fc, css, files, now, site, request, path) ==
    With(getContent(fc, files, now, path), LAMBDA c :
        IF ~c.ok THEN CssOutcome(FALSE, NoText, c.fc, css, 0, FALSE, FALSE, FALSE, FALSE)
        ELSE With(IF c.maybeNew THEN Returned(FALSE, FALSE, c.fc)
                  ELSE _haveUpdatedReferences(c.fc, css, files, now, path),
                  LAMBDA h :
             IF ~h.ok
             THEN CssOutcome(FALSE, NoText, h.fc, css, 0, TRUE, FALSE, TRUE, FALSE)
             ELSE IF ~c.maybeNew /\ ~h.value /\ path \in DOMAIN css
             THEN CssOutcome(TRUE, css[path].processed, h.fc, css, 0,
                             TRUE, FALSE, TRUE, FALSE)
             ELSE Recompute(h.fc, css, files, now, site, request, path,
                            c.value, c.maybeNew, ~c.maybeNew, h.value)))
-----------------------------------------------------------------------------
(* Response headers.  A header value is a Python object: its type and, for *)
(* a string, its text.  The headers of a response map a name to the list   *)
(* of its values.  A time is a number of clock steps, Resolution to the    *)
(* second, since getTime returns a float.                                   *)

Resolution == 2

CR == Lit("\r")
COMMASPACE == Lit(", ")

Obj(type, text) == [type |-> type, text |-> text]
Str(text) == Obj("str", text)

\* '%d' of a number
Dec(n) == <<"dec", n>>

\* the text of an HTTP date, which has whole seconds
HttpDate(seconds) == <<"httpdate", seconds>>

\* twisted.web.http.datetimeToString: the fraction of a second is dropped
datetimeToString(t) == Str(<<HttpDate(t \div Resolution)>>)

NoHeaders == [n \in {} |-> <<>>]

\* Headers.setRawHeaders(name, values)
setRawHeaders(headers, name, values) ==
    [n \in DOMAIN headers \cup {name} |-> IF n = name THEN values ELSE headers[n]]

\* Headers.addRawHeader(name, value)
addRawHeader(headers, name, value) ==
    IF name \in DOMAIN headers
    THEN [headers EXCEPT ![name] = Append(@, value)]
    ELSE setRawHeaders(headers, name, <<value>>)

\* request.responseHeaders.setRawHeaders(name, values)
SetOn(request, name, values) ==
    [request EXCEPT !.responseHeaders = setRawHeaders(@, name, values)]

ResponseCacheOptions(cacheTime, httpCachePublic, httpsCachePublic) ==
    [cacheTime |-> cacheTime, httpCachePublic |-> httpCachePublic,
     httpsCachePublic |-> httpsCachePublic]

\* 'max-age=%d, %s' % (cacheTime, privacy)
MaxAgeText(cacheTime, privacy) ==
    Str(<<Lit("max-age="), Dec(cacheTime), COMMASPACE, Lit(privacy)>>)

MinusOne == Str(<<Lit("-1")>>)

\* 'max-age=0, private' as it is written in the source
MaxAgeZeroPrivate == Str(<<Lit("max-age="), Dec(0), COMMASPACE, Lit("private")>>)

\* the choice of the word in the Cache-Control header
Privacy(request, cacheOptions) ==
    IF request.secure /\ cacheOptions.httpsCachePublic THEN "public"
    ELSE IF ~request.secure /\ cacheOptions.httpCachePublic THEN "public"
    ELSE "private"

\* A variant that lets the flags make the response public when cacheTime is 0
setCachingHeadersOnRequest_M1(request, cacheOptions, timeNow) ==
    SetOn(SetOn(SetOn(request, "date", <<datetimeToString(timeNow)>>),
                "expires",
                IF cacheOptions.cacheTime # 0
                THEN <<datetimeToString(timeNow + Resolution * cacheOptions.cacheTime)>>
                ELSE <<MinusOne>>),
          "cache-control",
          <<MaxAgeText(cacheOptions.cacheTime, Privacy(request, cacheOptions))>>)

\* A variant that adds its Expires value to those already there
setCachingHeadersOnRequest_M2(request, cacheOptions, timeNow) ==
    LET dated == SetOn(request, "date", <<datetimeToString(timeNow)>>)
        expires == IF cacheOptions.cacheTime # 0
                   THEN datetimeToString(timeNow + Resolution * cacheOptions.cacheTime)
                   ELSE MinusOne
    IN  SetOn([dated EXCEPT !.responseHeaders = addRawHeader(@, "expires", expires)],
              "cache-control",
              IF cacheOptions.cacheTime # 0
              THEN <<MaxAgeText(cacheOptions.cacheTime, Privacy(request, cacheOptions))>>
              ELSE <<MaxAgeZeroPrivate>>)

\* setCachingHeadersOnRequest, with timeNow what getTime() returns
setCachingHeadersOnRequest(request, cacheOptions, timeNow) ==
    LET dated == SetOn(request, "date", <<datetimeToString(timeNow)>>)
    IN  IF cacheOptions.cacheTime # 0
        THEN SetOn(SetOn(dated, "expires",
                         <<datetimeToString(timeNow + Resolution * cacheOptions.cacheTime)>>),
                   "cache-control",
                   <<MaxAgeText(cacheOptions.cacheTime, Privacy(request, cacheOptions))>>)
        ELSE SetOn(SetOn(dated, "expires", <<MinusOne>>),
                   "cache-control", <<MaxAgeZeroPrivate>>)

\* setDefaultHeadersOnRequest
setDefaultHeadersOnRequest(request) ==
    SetOn(SetOn(SetOn(request, "x-xss-protection", <<Str(<<Lit("1; mode=block")>>)>>),
                "x-content-type-options", <<Str(<<Lit("nosniff")>>)>>),
          "content-type", <<Str(<<Lit("text/html; charset=UTF-8")>>)>>)

NoCacheNoStore == Str(<<Lit("no-cache, no-store, max-age=0, must-revalidate")>>)
NoCache == Str(<<Lit("no-cache")>>)

\* setNoCacheNoStoreHeaders
setNoCacheNoStoreHeaders(request) ==
    SetOn(SetOn(SetOn(request, "cache-control", <<NoCacheNoStore>>),
                "pragma", <<NoCache>>),
          "expires", <<MinusOne>>)

(* safe_headers *)

\* isValidHeaderValue
isValidHeaderValue(value) ==
    ~(\E i \in 1..Len(value.text) : value.text[i] = NEWLINE \/ value.text[i] = CR)

\* checkHeaderValue: the exception it raises, or None
checkHeaderValue(value) ==
    IF value.type # "str" THEN <<"TypeError">>
    ELSE IF ~isValidHeaderValue(value) THEN <<"ValueError">>
    ELSE None

\* what a call leaves: the exception it raised, or None, and the headers
Left(raised, headers) == [raised |-> raised, headers |-> headers]

\* the loop over values from values[i] on, with the set at its end
RECURSIVE CheckLoop(_, _, _, _)
CheckLoop(headers, name, values, i) ==
    IF i > Len(values) THEN Left(None, setRawHeaders(headers, name, values))
    ELSE IF checkHeaderValue(values[i]) # None
    THEN Left(checkHeaderValue(values[i]), headers)
    ELSE CheckLoop(headers, name, values, i + 1)

\* A variant that stores each value as soon as it has checked it
RECURSIVE StoreLoop(_, _, _, _)
StoreLoop(headers, name, values, i) ==
    IF i > Len(values) THEN Left(None, headers)
    ELSE IF checkHeaderValue(values[i]) # None
    THEN Left(checkHeaderValue(values[i]), headers)
    ELSE StoreLoop(setRawHeaders(headers, name, SubSeq(values, 1, i)), name,
                   values, i + 1)

setRawHeadersSafely_M1(headers, name, values) ==
    IF values.type # "list" THEN Left(<<"TypeError">>, headers)
    ELSE StoreLoop(setRawHeaders(headers, name, <<>>), name, values.items, 1)

\* setRawHeadersSafely; values is a Python object with its items
setRawHeadersSafely(headers, name, values) ==
    IF values.type # "list" THEN Left(<<"TypeError">>, headers)
    ELSE CheckLoop(headers, name, values.items, 1)

\* addRawHeaderSafely
addRawHeaderSafely(headers, name, value) ==
    IF checkHeaderValue(value) # None THEN Left(checkHeaderValue(value), headers)
    ELSE Left(None, addRawHeader(headers, name, value))

(* BetterResource.render *)

\* what a render leaves: whether it returned, and the request
Rendered(ok, request) == [ok |-> ok, request |-> request]

TextCss == Str(<<Lit("text/css; charset=UTF-8")>>)

\* CSSResource.render_GET, with processed what self._getProcessedCSS() gave
render_GET(request, processed, cacheOptions, timeNow) ==
    IF ~processed.ok THEN Rendered(FALSE, request)
    ELSE Rendered(TRUE,
             setCachingHeadersOnRequest(SetOn(request, "content-type", <<TextCss>>),
                                        cacheOptions, timeNow))

\* resource.Resource.render for the resources of this library: a CSSResource,
\* whose render_GET is above; DisplayConnections, whose render_GET sets no
\* header and returns when works holds; and a resource with no render_GET,
\* for which UnsupportedMethod is raised
Resource_render(kind, request, works, cacheOptions, timeNow) ==
    CASE kind = "CSSResource" ->
             render_GET(request, [ok |-> works], cacheOptions, timeNow)
      [] kind = "DisplayConnections" -> Rendered(works, request)
      [] OTHER -> Rendered(FALSE, request)

\* A variant that re-raises without touching the headers
render_M1(kind, request, works, cacheOptions, timeNow) ==
    Resource_render(kind, setDefaultHeadersOnRequest(request), works,
                    cacheOptions, timeNow)

\* BetterResource.render
render(kind, request, works, cacheOptions, timeNow) ==
    With(Resource_render(kind, setDefaultHeadersOnRequest(request), works,
                         cacheOptions, timeNow),
         LAMBDA r : IF r.ok THEN r
                    ELSE Rendered(FALSE, setNoCacheNoStoreHeaders(r.request)))

-----------------------------------------------------------------------------
(* The served site: a BetterFile on a directory holding one.png and the    *)
(* directory sub with style.css and two.png, as BetterFileTests._makeTree   *)
(* builds it, with two registered children: gen, a static.File subclass    *)
(* that provides ICacheBreaker, and page, a leaf BetterResource.           *)

CssPath == <<Seg("sub"), Seg("style.css")>>
OnePng  == <<Seg("one.png")>>
TwoPng  == <<Seg("sub"), Seg("two.png")>>
SpacePng == <<Seg("sub"), Seg("t w.png")>>
GenBin  == <<Seg("gen.bin")>>

\* request.path of a request for the style sheet
CssUrl == <<SLASH, Lit("sub"), SLASH, Lit("style.css")>>

CssSiteTree ==
    <<Node("File", FALSE, (Seg("gen") :> 2) @@ (Seg("page") :> 3), <<>>, NoText),
      Node("BreakerFile", FALSE, NoChildren, GenBin, Lit("own-breaker")),
      Node("BetterResource", TRUE, NoChildren, NoPath, NoText)>>

CssSite == Site(CssSiteTree, 1)

\* the request CSSResource was made for
CssRequest == Request(<<>>, <<Seg("sub"), Seg("style.css")>>, CssUrl, CssUrl)

\* the text of url(href)
Url(strs) == UrlOf([i \in 1..Len(strs) |-> Lit(strs[i])])

\* the style sheets the model writes to style.css
CssOneTwo ==
    <<Lit("p { background-image: ")>> \o Url(<<"..", "/", "one.png">>)
    \o <<Lit("; }\nq { background-image: ")>> \o Url(<<"two.png">>)
    \o <<Lit("; }\n")>>

\* a style sheet that refers to the registered resource page, which is no file
CssPage == <<Lit("b { background-image: ")>> \o Url(<<"/", "page">>) \o <<Lit("; }\n")>>

CssContents == {CssOneTwo, CssPage}

\* the bytes the model writes to the image files
PngOne == <<Lit("one")>>
PngTwo == <<Lit("two")>>
PngReplacement == <<Lit("replacement")>>

\* the files the model writes and deletes
Writable == {CssPath, OnePng, TwoPng}

ContentsFor(f) ==
    IF f = CssPath THEN CssContents
    ELSE IF f = OnePng THEN {PngOne}
    ELSE {PngTwo, PngReplacement}

\* how far the clock runs
MaxClock == 2

\* how many requests for the style sheet are in flight at once
MaxInFlight == 2

\* the files other users of the shared FileCache read through it
Shared == {CssPath}

\* the request of style.css as it comes to render, with no response header
\* yet (DummyRequest.isSecure is False), and the options and the time of the
\* BetterFile that serves it
CssResponse == [secure |-> FALSE, responseHeaders |-> NoHeaders]
CssCacheOptions == ResponseCacheOptions(3600, FALSE, TRUE)
CssTime(now) == Resolution * now

\* the outcome of a step that is not a CSSResource call
NoCall(op) ==
    [op |-> op, ok |-> TRUE, value |-> NoText, ran |-> 0, read |-> FALSE,
     maybeNew |-> FALSE, checked |-> FALSE, updated |-> FALSE,
     hadEntry |-> FALSE, response |-> CssResponse]

InitFiles ==
    (CssPath :> CssOneTwo) @@ (OnePng :> PngOne) @@ (TwoPng :> PngTwo)
    @@ (GenBin :> <<Lit("gen")>>)

NotUnderTest == <<>>

Init ==
    /\ fs = InitFiles
    /\ clock = 0
    /\ fileCache = NoEntries
    /\ cssCache = NoEntries
    /\ last = NoCall("init")
    /\ inflight = 0
    /\ fixIn = NotUnderTest /\ fixOut = NotUnderTest
    /\ treeIn = NotUnderTest /\ treeOut = NotUnderTest
    /\ httpRequest = NotUnderTest /\ outcome = NotUnderTest
    /\ stopper = NotUnderTest /\ reactor = NotUnderTest /\ tracking = NotUnderTest

\* site.getResourceFor(request) for a request of style.css: when the file
\* exists, the '.css' processor makes a CSSResource for the request
Locate ==
    /\ inflight < MaxInFlight
    /\ getChildForRequest(CssSiteTree, fs, NodeResource(CssSiteTree, 1),
            Request(<<Seg("sub"), Seg("style.css")>>, <<>>, CssUrl, CssUrl))
       = CSSResource(CssPath)
    /\ inflight' = inflight + 1
    /\ last' = NoCall("locate")
    /\ UNCHANGED <<fs, clock, fileCache, cssCache, fixIn, fixOut, treeIn, treeOut, httpRequest, outcome, stopper, reactor,
                   tracking>>

\* BetterResource.render of the CSSResource for a request of style.css:
\* render_GET calls _getProcessedCSS and then sets the headers
Render ==
    \E r \in {_getProcessedCSS(fileCache, cssCache, fs, clock, CssSite,
                              CssRequest, CssPath)} :
        /\ inflight > 0
        /\ inflight' = inflight - 1
        /\ fileCache' = r.fc
        /\ cssCache' = r.css
        /\ last' = [op |-> "render", ok |-> r.ok, value |-> r.value,
                    ran |-> r.ran, read |-> r.read, maybeNew |-> r.maybeNew,
                    checked |-> r.checked, updated |-> r.updated,
                    hadEntry |-> CssPath \in DOMAIN cssCache,
                    response |-> render("CSSResource", CssResponse, r.ok,
                                        CssCacheOptions, CssTime(clock)).request]
        /\ UNCHANGED <<fs, clock, fixIn, fixOut, treeIn, treeOut, httpRequest, outcome, stopper, reactor,
                   tracking>>

\* Another user of the shared FileCache reads a file through it, as
\* pathmanip.getBreakerForHref does for a page that links to the file
ReadThrough(f) ==
    /\ fileCache' = getContentMd5(fileCache, fs, clock, f).fc
    /\ last' = NoCall("read")
    /\ UNCHANGED <<fs, clock, cssCache, inflight, fixIn, fixOut, treeIn, treeOut, httpRequest, outcome, stopper, reactor,
                   tracking>>

\* The file f is written with new bytes
WriteFile(f, bytes) ==
    /\ IF f \in DOMAIN fs THEN fs[f] # bytes ELSE TRUE
    /\ fs' = (f :> bytes) @@ fs
    /\ last' = NoCall("write")
    /\ UNCHANGED <<clock, fileCache, cssCache, inflight, fixIn, fixOut, treeIn, treeOut, httpRequest, outcome, stopper, reactor,
                   tracking>>

\* The file f is deleted
DeleteFile(f) ==
    /\ f \in DOMAIN fs
    /\ fs' = [g \in DOMAIN fs \ {f} |-> fs[g]]
    /\ last' = NoCall("delete")
    /\ UNCHANGED <<clock, fileCache, cssCache, inflight, fixIn, fixOut, treeIn, treeOut, httpRequest, outcome, stopper, reactor,
                   tracking>>

\* Time passes
Tick ==
    /\ clock < MaxClock
    /\ clock' = clock + 1
    /\ last' = NoCall("tick")
    /\ UNCHANGED <<fs, fileCache, cssCache, inflight, fixIn, fixOut, treeIn, treeOut, httpRequest, outcome, stopper, reactor,
                   tracking>>

Next ==
    \/ Locate
    \/ Render
    \/ \E f \in Shared : ReadThrough(f)
    \/ \E f \in Writable : \E bytes \in ContentsFor(f) : WriteFile(f, bytes)
    \/ \E f \in Writable : DeleteFile(f)
    \/ Tick

Spec == Init /\ [][Next]_vars
-----------------------------------------------------------------------------
(* The processed-CSS cache: what the state before a call says of it *)

\* what FileCache answers when _getProcessedCSS asks for the source
SourceRead == getContent(fileCache, fs, clock, CssPath)

HasEntry == CssPath \in DOMAIN cssCache

\* the references recorded in the entry of style.css
Recorded == IF HasEntry THEN cssCache[CssPath].references ELSE <<>>

\* what FileCache answers for the hash of the i-th recorded reference, asked
\* after the source was read
HashNow(i) == getContentMd5(SourceRead.fc, fs, clock, Recorded[i].path)

\* every recorded reference still hashes to its recorded value
AllRefsSame ==
    \A i \in 1..Len(Recorded) : HashNow(i).ok /\ HashNow(i).value = Recorded[i].lasthash

\* some recorded reference hashes to another value than the recorded one
SomeRefDiffers ==
    \E i \in 1..Len(Recorded) : HashNow(i).ok /\ HashNow(i).value # Recorded[i].lasthash

\* the first recorded reference that no longer hashes to its recorded value
\* does hash: no reference before it is unreadable
FirstChangeReadable ==
    \E i \in 1..Len(Recorded) :
        /\ HashNow(i).ok /\ HashNow(i).value # Recorded[i].lasthash
        /\ \A j \in 1..(i - 1) : HashNow(j).ok

\* the step is a call of _getProcessedCSS for style.css
IsRender == last'.op = "render"

\* what _process makes of the source as FileCache returns it
Fresh ==
    _process(SourceRead.fc, cssCache, fs, clock, CssSite, CssRequest, SourceRead.value)

\* C1: when FileCache reports the source as not new and every recorded
\* reference still hashes to its recorded value, _getProcessedCSS returns the
\* processed content of the cache entry, does not run _process and leaves the
\* cache map as it is.
C1_CachedWhileUnchanged ==
    [][(IsRender /\ SourceRead.ok /\ ~SourceRead.maybeNew /\ HasEntry /\ AllRefsSame)
        => /\ last'.ok
           /\ last'.value = cssCache[CssPath].processed
           /\ last'.ran = 0
           /\ cssCache' = cssCache]_vars

\* C1 happens: a call served the entry after checking its references, of
\* which there are some.
C1_Witness ==
    /\ last.op = "render" /\ last.ok /\ last.hadEntry
    /\ last.checked /\ ~last.updated /\ last.ran = 0
    /\ HasEntry /\ Len(Recorded) > 0
    /\ last.value = cssCache[CssPath].processed

\* C2 as claimed: when FileCache flags the source as possibly new, or the
\* current hash of a recorded reference differs from the recorded one, the
\* call runs _process, stores a new entry and returns its content.
C2_Original ==
    [][(IsRender /\ SourceRead.ok /\ (SourceRead.maybeNew \/ SomeRefDiffers))
        => /\ last'.ok
           /\ last'.ran = 1
           /\ CssPath \in DOMAIN cssCache'
           /\ last'.value = cssCache'[CssPath].processed]_vars

\* What does hold in the case of C2: when FileCache flags the source as
\* possibly new, or the first recorded reference whose hash differs is reached
\* without a read failure, the call runs _process once; if _process returns,
\* the call stores the new entry (content, digest, references) and returns the
\* new content; if it raises, so does the call, and the cache map is left as
\* it was.
C2_RecomputeWhenStale ==
    [][(IsRender /\ SourceRead.ok /\ (SourceRead.maybeNew \/ FirstChangeReadable))
        => /\ last'.ran = 1
           /\ last'.ok = Fresh.ok
           /\ Fresh.ok =>
                /\ CssPath \in DOMAIN cssCache'
                /\ cssCache'[CssPath] =
                     _CSSCacheEntry(Fresh.content, md5hexdigest(Fresh.content),
                                    Fresh.references)
                /\ last'.value = Fresh.content
           /\ ~Fresh.ok => cssCache' = cssCache]_vars

\* C2 fails here: there was an entry, the source was rewritten to refer to
\* the registered resource page, and the call that re-ran _process raised.
C2_Witness ==
    /\ last.op = "render" /\ ~last.ok /\ last.hadEntry
    /\ last.maybeNew /\ last.ran = 1
    /\ CssPath \in DOMAIN fs /\ fs[CssPath] = CssPage

\* C3 as claimed: with no entry for the path, a call runs _process exactly
\* once, stores an entry and returns its processed content.
C3_Original ==
    (last.op = "render" /\ last.read /\ ~last.hadEntry)
        => /\ last.ok
           /\ last.ran = 1
           /\ HasEntry
           /\ last.value = cssCache[CssPath].processed

\* What does hold in the case of C3: with no entry for the path, a call whose
\* source FileCache returns runs _process exactly once, also when FileCache
\* does not flag the source as new; it stores an entry and returns its
\* processed content when _process returns, and raises and stores nothing
\* when _process raises.
C3_MissComputesOnce ==
    (last.op = "render" /\ last.read /\ ~last.hadEntry)
        => /\ last.ran = 1
           /\ last.ok => HasEntry /\ last.value = cssCache[CssPath].processed
           /\ ~last.ok => ~HasEntry

\* C3 fails here: there was no entry, FileCache did not flag the source as
\* new, _process ran once and raised, and no entry was stored.
C3_Witness ==
    /\ last.op = "render" /\ ~last.ok /\ ~last.hadEntry /\ ~last.maybeNew
    /\ last.read /\ last.ran = 1 /\ ~HasEntry

\* C4: the digest of every entry of the cache map is the md5 hex digest of
\* the processed content of that entry.
C4_DigestOfProcessed ==
    \A p \in DOMAIN cssCache :
        cssCache[p].digest = md5hexdigest(cssCache[p].processed)

\* C4 happens: an entry was replaced by a later call.
C4_Witness ==
    /\ last.op = "render" /\ last.ok /\ last.hadEntry /\ last.ran = 1
    /\ HasEntry

-----------------------------------------------------------------------------
\* fixUrls as a function of the style sheet's text: SpecFix draws a style
\* sheet and the request it is served for, and applies fixUrls to it over a
\* fixed file system and an empty FileCache.

\* how many pieces a style sheet is put together from
MaxPieces == 3

DeepCssPath == <<Seg("sub"), Seg("in"), Seg("style.css")>>
DeepCssUrl == <<SLASH, Lit("sub"), SLASH, Lit("in"), SLASH, Lit("style.css")>>
DeepCssRequest ==
    Request(<<>>, <<Seg("sub"), Seg("in"), Seg("style.css")>>, DeepCssUrl, DeepCssUrl)

FixRequests == {CssRequest, DeepCssRequest}

DeepTwoPng == <<Seg("sub"), Seg("in"), Seg("two.png")>>

FixFiles ==
    InitFiles @@ (SpacePng :> <<Lit("space")>>) @@ (DeepCssPath :> <<Lit("deep")>>)
    @@ (DeepTwoPng :> <<Lit("deep two")>>)

\* the pieces: references of each kind, and text that is no reference
AbsHttp      == Url(<<"http://", "h", "/", "a.png">>)
AbsHttps     == Url(<<"https://", "h", "/", "a.png">>)
RelTwo       == Url(<<"two.png">>)
RelParentTwo == Url(<<"..", "/", "two.png">>)
RelRooted    == Url(<<"/", "sub", "/", "two.png">>)
RelQuoted    == Url(<<"t%20w.png">>)
RelGen       == Url(<<"/", "gen">>)
RelMissing   == Url(<<"missing.png">>)
RelPage      == Url(<<"/", "page">>)
RelCss       == Url(<<"in", "/", "style.css">>)
\* an absolute URL that is not closed before the next reference begins
AbsOpen      == <<URLOPEN, HTTP, Lit("h"), SLASH>>
\* a reference broken over two lines, which the pattern does not match
BrokenLine   == <<URLOPEN, Lit("two.png"), NEWLINE, CLOSE>>
PlainText    == <<Lit("p { color: red; }")>>

Pieces ==
    {AbsHttp, AbsHttps, RelTwo, RelParentTwo, RelRooted,
     RelQuoted, RelGen, RelMissing, RelPage, RelCss, AbsOpen, BrokenLine,
     PlainText}

RECURSIVE Flatten(_)
Flatten(ps) == IF ps = <<>> THEN <<>> ELSE Head(ps) \o Flatten(Tail(ps))

FixContents ==
    {Flatten(ps) : ps \in UNION {[1..n -> Pieces] : n \in 0..MaxPieces}}

\* the style sheet in sub/in has been served before
DeepServed ==
    _getProcessedCSS(NoEntries, NoEntries, FixFiles, 0, CssSite, DeepCssRequest,
                     DeepCssPath)

InitFix ==
    /\ fs = FixFiles
    /\ clock = 0
    /\ fileCache = DeepServed.fc
    /\ cssCache = DeepServed.css
    /\ last = NoCall("init")
    /\ inflight = 0
    /\ fixIn \in [content : FixContents, request : FixRequests]
    /\ fixOut = [ran |-> FALSE]
    /\ treeIn = NotUnderTest /\ treeOut = NotUnderTest
    /\ httpRequest = NotUnderTest /\ outcome = NotUnderTest
    /\ stopper = NotUnderTest /\ reactor = NotUnderTest /\ tracking = NotUnderTest

\* cssfixer.fixUrls(fileCache, request, content), as _cssRewriter calls it
FixRun ==
    \E r \in {fixUrls(fileCache, cssCache, fs, clock, CssSite, fixIn.request,
                     fixIn.content)} :
        /\ ~fixOut.ran
        /\ fixOut' = [ran |-> TRUE, ok |-> r.ok, content |-> r.content,
                      references |-> r.references, looked |-> r.looked,
                      missingBreakers |-> r.missingBreakers]
        /\ fileCache' = r.fc
        /\ last' = NoCall("fixUrls")
        /\ UNCHANGED <<fs, clock, cssCache, inflight, fixIn, treeIn, treeOut, httpRequest, outcome, stopper, reactor,
                   tracking>>

NextFix == FixRun

SpecFix == InitFix /\ [][NextFix]_vars

-----------------------------------------------------------------------------
\* What the claims about fixUrls speak of

\* the text between "url(" and ")" of a match
HrefOf(m) == SubSeq(m, 2, Len(m) - 1)

InMatches == FindAll(fixIn.content, 1)
OutMatches == FindAll(fixOut.content, 1)

AbsoluteMatch(m) == IsAbsolute(HrefOf(m))
RelativeMatch(m) == ~IsAbsolute(HrefOf(m))

\* the relative hrefs of the input, in order
RelativeHrefs ==
    LET ms == SelectSeq(InMatches, RelativeMatch)
    IN  [k \in 1..Len(ms) |-> HrefOf(ms[k])]

\* the resource the href of a match of the input resolves to
Located(m) == getResourceForHref(CssSite, fs, fixIn.request, HrefOf(m))

\* the resource has a breaker: its own, or the bytes of its file
Hashable(res) ==
    /\ ~IsErrorPage(res)
    /\ HasGetCacheBreaker(res) \/ (HasPath(res) /\ res.path \in DOMAIN fs)

\* the breaker such a resource is to get
TokenFor(res) ==
    IF res.kind = "CSSResource" THEN cssCache[res.path].digest
    ELSE IF HasGetCacheBreaker(res) THEN res.breaker
    ELSE md5hexdigest(fs[res.path])

\* C5: every url(...) whose href begins with http:// or https:// appears in
\* the output exactly as in the input, whatever else the style sheet holds,
\* and only relative hrefs contribute a ReferencedFile.
C5_AbsoluteUntouched ==
    (fixOut.ran /\ fixOut.ok) =>
        /\ SelectSeq(OutMatches, AbsoluteMatch) = SelectSeq(InMatches, AbsoluteMatch)
        /\ Len(fixOut.references) <= Len(RelativeHrefs)

\* C5 fails here: the absolute URL runs on into a relative reference, whose
\* text inside it is what gets the cachebreaker.
C5_Witness ==
    /\ fixOut.ran /\ fixOut.ok
    /\ fixIn.content = AbsOpen \o RelTwo \o RelTwo
    /\ OutMatches[1] # InMatches[1]

\* C6: every relative url(href) of the input whose target is a served resource
\* with a breaker stands in the output as url(href?cb=token), token being the
\* resource's own breaker if it has one and else the md5 of its file's bytes;
\* this for every occurrence, repeated ones too.
C6_RelativeRewritten ==
    fixOut.ran =>
        \A i \in 1..Len(InMatches) :
            (RelativeMatch(InMatches[i]) /\ Hashable(Located(InMatches[i]))) =>
                /\ fixOut.ok
                /\ Len(OutMatches) = Len(InMatches)
                /\ OutMatches[i] =
                     UrlOf(HrefOf(InMatches[i])
                           \o <<CB, TokenFor(Located(InMatches[i]))>>)

\* C6 fails here: the href names a style sheet, a served resource with its
\* own getCacheBreaker, and fixUrls raises.
C6_Witness ==
    /\ fixOut.ran /\ ~fixOut.ok
    /\ fixIn.content = RelTwo \o RelCss
    /\ fixIn.request = CssRequest

\* the relative matches of the input whose resource has no breaker
Missing(i) == RelativeMatch(InMatches[i]) /\ ~Hashable(Located(InMatches[i]))

MissingHrefs ==
    LET ms == SelectSeq(InMatches,
                  LAMBDA m : RelativeMatch(m) /\ ~Hashable(Located(m)))
    IN  [k \in 1..Len(ms) |-> HrefOf(ms[k])]

\* C8: when some relative href names a resource that is not found or has
\* nothing to hash, fixUrls still returns; each such reference stands in the
\* output as url(href?cb=not-found), the output ends with the warning that
\* names the request path and those hrefs, and every other relative
\* reference has its real cachebreaker.
C8_MissingFlagged ==
    (fixOut.ran /\ MissingHrefs # <<>>) =>
        /\ fixOut.ok
        /\ Len(OutMatches) = Len(InMatches)
        /\ fixOut.content[Len(fixOut.content)]
             = Banner(fixIn.request.path, MissingHrefs)
        /\ \A i \in 1..Len(InMatches) :
              /\ Missing(i) =>
                    OutMatches[i] = UrlOf(HrefOf(InMatches[i]) \o <<CB, NOTFOUND>>)
              /\ (RelativeMatch(InMatches[i]) /\ ~Missing(i)) =>
                    OutMatches[i] =
                        UrlOf(HrefOf(InMatches[i])
                              \o <<CB, TokenFor(Located(InMatches[i]))>>)

\* C8 fails here: the href names a registered resource that serves no file,
\* and fixUrls raises.
C8_Witness ==
    /\ fixOut.ran /\ ~fixOut.ok
    /\ fixIn.content = RelTwo \o RelPage
    /\ Located(RelPage).kind = "BetterResource"

\* Relative-reference resolution of href against the directory of the request
\* path, segment by segment: ".." leaves a directory, a name enters one, and
\* an href that begins with "/" starts from the root.
RECURSIVE Enter(_, _)
Enter(dir, segs) ==
    IF segs = <<>> THEN dir
    ELSE IF Head(segs) = <<DOTDOT>>
    THEN Enter(SubSeq(dir, 1, Len(dir) - 1), Tail(segs))
    ELSE Enter(Append(dir, Head(segs)), Tail(segs))

Resolved(href) ==
    IF Head(href) = SLASH THEN Tail(Split(href))
    ELSE Enter(SubSeq(fixIn.request.prepath, 1, Len(fixIn.request.prepath) - 1),
               Split(href))

\* what the site's resource tree serves at the path with these segments
ServedAt(segs) ==
    getChildForRequest(CssSiteTree, fs, NodeResource(CssSiteTree, 1),
        Request([k \in 1..Len(segs) |-> unquote(segs[k])], <<>>, DummyUri, NoText))

-----------------------------------------------------------------------------
\* Resource lookup as a function of the tree and the request: SpecTree draws
\* a tree of registered resources and a request path, and applies
\* site.getResourceFor to them.

\* how many segments a request path has at most
MaxDepth == 3

Hello == Seg("hello")
Child == Seg("child")

\* the resource classes of the tree tests
Leaf == Node("BetterResource", TRUE, NoChildren, NoPath, NoText)
NonLeaf(kids) == Node("BetterResource", FALSE, kids, NoPath, NoText)
LeafPlainResource == Node("Resource", TRUE, NoChildren, NoPath, NoText)
NonLeafPlainResource == Node("Resource", FALSE, NoChildren, NoPath, NoText)

\* the trees: node 1 is the root
LeafRoot == <<Leaf>>
IndexRoot == <<NonLeaf(EmptySeg :> 2), Leaf>>
HelloLeaf == <<NonLeaf(Hello :> 2), Leaf>>
HelloIndex == <<NonLeaf(Hello :> 2), NonLeaf(EmptySeg :> 3), Leaf>>
HelloNonLeafIndex ==
    <<NonLeaf(Hello :> 2), NonLeaf(EmptySeg :> 3), NonLeaf(EmptySeg :> 4), Leaf>>
HelloChild == <<NonLeaf(Hello :> 2), NonLeaf(Child :> 3), Leaf>>
HelloIndexAndChild ==
    <<NonLeaf(Hello :> 2), NonLeaf((EmptySeg :> 3) @@ (Child :> 4)), Leaf, Leaf>>
HelloNonLeaf == <<NonLeaf(Hello :> 2), NonLeaf(NoChildren)>>
HelloLeafPlain == <<NonLeaf(Hello :> 2), LeafPlainResource>>
HelloNonLeafPlain == <<NonLeaf(Hello :> 2), NonLeafPlainResource>>

Trees ==
    {LeafRoot, IndexRoot, HelloLeaf, HelloIndex, HelloNonLeafIndex, HelloChild,
     HelloIndexAndChild, HelloNonLeaf, HelloLeafPlain, HelloNonLeafPlain}

Segments == {Hello, Child, EmptySeg}

Postpaths == UNION {[1..n -> Segments] : n \in 1..MaxDepth}

\* the request line's URI for these segments
UriOf(postpath) == <<SLASH>> \o Join(postpath)

\* The calls of getChildWithDefault that getChildForRequest makes, in order:
\* the resource asked, the segment, the request as it was then, the answer
RECURSIVE Calls(_, _, _, _)
Calls(tree, files, res, request) ==
    IF request.postpath # <<>> /\ ~isLeaf(tree, res)
    THEN LET pathElement == Head(request.postpath)
             moved == [request EXCEPT !.postpath = Tail(@),
                                      !.prepath = Append(@, pathElement)]
             result == getChildWithDefault(tree, files, res, pathElement, moved)
         IN  <<[resource |-> res, path |-> pathElement, request |-> moved,
                result |-> result]>>
             \o Calls(tree, files, result, moved)
    ELSE <<>>

InitTree ==
    /\ fs = InitFiles
    /\ clock = 0
    /\ fileCache = NoEntries
    /\ cssCache = NoEntries
    /\ last = NoCall("init")
    /\ inflight = 0
    /\ fixIn = NotUnderTest /\ fixOut = NotUnderTest
    /\ treeIn \in [tree : Trees, postpath : Postpaths]
    /\ treeOut = [ran |-> FALSE]
    /\ httpRequest = NotUnderTest /\ outcome = NotUnderTest
    /\ stopper = NotUnderTest /\ reactor = NotUnderTest /\ tracking = NotUnderTest

\* site.getResourceFor(request)
Lookup ==
    LET request == Request(treeIn.postpath, <<>>, UriOf(treeIn.postpath),
                           UriOf(treeIn.postpath))
        root == NodeResource(treeIn.tree, 1)
    IN  /\ ~treeOut.ran
        /\ treeOut' = [ran |-> TRUE,
                       res |-> getChildForRequest(treeIn.tree, fs, root, request),
                       calls |-> Calls(treeIn.tree, fs, root, request)]
        /\ last' = NoCall("lookup")
        /\ UNCHANGED <<fs, clock, fileCache, cssCache, inflight, fixIn, fixOut, treeIn,
                       httpRequest, outcome, stopper, reactor,
                   tracking>>

NextTree == Lookup

SpecTree == InitTree /\ [][NextTree]_vars

\* the registered child a call names, when it names one
Named(c) == NodeResource(treeIn.tree, children(treeIn.tree, c.resource)[c.path])

\* a call on a BetterResource whose segment names a registered BetterResource
NamesBetterChild(c) ==
    /\ c.resource.kind = "BetterResource"
    /\ c.path \in DOMAIN children(treeIn.tree, c.resource)
    /\ Named(c).kind = "BetterResource"

HasIndexOrIsLeaf(res) ==
    isLeaf(treeIn.tree, res) \/ EmptySeg \in DOMAIN children(treeIn.tree, res)

\* C9: a call whose segment names a registered BetterResource child, with no
\* path left over, a non-empty segment, and a child that is a leaf or has an
\* index child, answers a 301 redirect to the request URI with "/" appended,
\* and that is what the lookup returns.
C9_RedirectsToSlash ==
    treeOut.ran =>
        \A k \in 1..Len(treeOut.calls) :
            LET c == treeOut.calls[k]
            IN  (/\ NamesBetterChild(c)
                 /\ c.request.postpath = <<>>
                 /\ c.path # EmptySeg
                 /\ HasIndexOrIsLeaf(Named(c)))
                => /\ c.result.kind = "RedirectingResource"
                   /\ c.result.code = 301
                   /\ c.result.location = UriOf(treeIn.postpath) \o <<SLASH>>
                   /\ treeOut.res = c.result

\* C9 happens: /hello names a non-leaf whose index child is itself a non-leaf.
C9_Witness ==
    /\ treeOut.ran
    /\ treeIn.tree = HelloNonLeafIndex
    /\ treeIn.postpath = <<Hello>>
    /\ treeOut.res = RedirectingResource(301, <<SLASH, Lit("hello"), SLASH>>)

\* C10: a call whose segment names a registered BetterResource child, with no
\* path left over and a non-empty segment, answers the 404 resource and no
\* redirect when the child is neither a leaf nor has an index child; with
\* path left over the same child is handed on, so its named children are
\* looked up in it.
C10_NoIndexNoRedirect ==
    treeOut.ran =>
        \A k \in 1..Len(treeOut.calls) :
            LET c == treeOut.calls[k]
            IN  (/\ NamesBetterChild(c)
                 /\ c.path # EmptySeg
                 /\ ~HasIndexOrIsLeaf(Named(c)))
                => IF c.request.postpath = <<>>
                   THEN /\ c.result = HelpfulNoResource
                        /\ treeOut.res = HelpfulNoResource
                   ELSE /\ c.result = Named(c)
                        /\ (c.request.postpath = <<Child, EmptySeg>>
                            /\ Child \in DOMAIN children(treeIn.tree, Named(c)))
                           => treeOut.res =
                                NodeResource(treeIn.tree,
                                    children(treeIn.tree, Named(c))[Child])

\* C10 happens: /hello names a non-leaf with only the child "child", and is
\* answered 404.
C10_Witness ==
    /\ treeOut.ran
    /\ treeIn.tree = HelloChild
    /\ treeIn.postpath = <<Hello>>
    /\ treeOut.res = HelpfulNoResource

\* a call on a BetterResource whose segment names a registered child
NamesChild(c) ==
    /\ c.resource.kind = "BetterResource"
    /\ c.path \in DOMAIN children(treeIn.tree, c.resource)

\* C11: a call whose segment names a registered child that is a leaf, with
\* path left over that is neither empty nor one empty segment, answers the 404
\* resource, whether the rest is further names or further slashes, and the
\* lookup then returns the 404 resource and never the leaf.
C11_LeafWithCrudIs404 ==
    treeOut.ran =>
        \A k \in 1..Len(treeOut.calls) :
            LET c == treeOut.calls[k]
            IN  (/\ NamesChild(c)
                 /\ isLeaf(treeIn.tree, Named(c))
                 /\ c.request.postpath \notin {<<>>, <<EmptySeg>>})
                => /\ c.result = HelpfulNoResource
                   /\ treeOut.res = HelpfulNoResource

\* C11 happens: /hello// for the leaf hello, slashes only after the leaf.
C11_Witness ==
    /\ treeOut.ran
    /\ treeIn.tree = HelloLeaf
    /\ treeIn.postpath = <<Hello, EmptySeg, EmptySeg>>
    /\ treeOut.res = HelpfulNoResource

\* C12: a request whose last segment is empty is never answered with a
\* redirect; the request for "/" resolves to the root when the root is a leaf
\* and to the root's index child when the root has one, and /hello/ resolves
\* to the leaf hello.
C12_SlashNotRedirected ==
    (treeOut.ran /\ treeIn.postpath[Len(treeIn.postpath)] = EmptySeg) =>
        /\ treeOut.res.kind # "RedirectingResource"
        /\ \A k \in 1..Len(treeOut.calls) :
              treeOut.calls[k].result.kind # "RedirectingResource"
        /\ treeIn.postpath = <<EmptySeg>> =>
              LET root == NodeResource(treeIn.tree, 1)
              IN  IF isLeaf(treeIn.tree, root) THEN treeOut.res = root
                  ELSE EmptySeg \in DOMAIN children(treeIn.tree, root) =>
                         treeOut.res =
                            NodeResource(treeIn.tree,
                                         children(treeIn.tree, root)[EmptySeg])
        /\ (treeIn.postpath = <<Hello, EmptySeg>>
            /\ Hello \in DOMAIN children(treeIn.tree, NodeResource(treeIn.tree, 1))
            /\ isLeaf(treeIn.tree, NodeResource(treeIn.tree, 2)))
           => treeOut.res = NodeResource(treeIn.tree, 2)

\* C12 happens: "/" was asked of a non-leaf root and its index child came back.
C12_Witness ==
    /\ treeOut.ran
    /\ treeIn.tree = IndexRoot
    /\ treeIn.postpath = <<EmptySeg>>
    /\ Len(treeOut.calls) = 1
    /\ treeOut.res = NodeResource(IndexRoot, 2)

\* C13: a call whose segment names a registered child that is no
\* BetterResource, with no path left over, answers that child, leaf or not,
\* and never a redirect.
C13_PlainChildNotRedirected ==
    treeOut.ran =>
        \A k \in 1..Len(treeOut.calls) :
            LET c == treeOut.calls[k]
            IN  (/\ NamesChild(c)
                 /\ ~IsBetterResource(Named(c))
                 /\ c.request.postpath = <<>>)
                => /\ c.result = Named(c)
                   /\ treeOut.res = Named(c)

\* C13 happens: /hello names a plain resource that is not a leaf.
C13_Witness ==
    /\ treeOut.ran
    /\ treeIn.tree = HelloNonLeafPlain
    /\ treeIn.postpath = <<Hello>>
    /\ treeOut.res = NodeResource(HelloNonLeafPlain, 2)
    /\ treeOut.res.kind = "Resource"

-----------------------------------------------------------------------------
(* CookieInstaller.  A cookie value is a sequence of characters: 0..63 are  *)
(* the characters of the base64 alphabet by their value, PAD is "=", and   *)
(* the others are characters outside the alphabet.  A byte is 0..255.      *)

PAD == 64
NUL == 65
SEMICOLON == 66
LINEFEED == 67

\* binascii_find_valid(ascii_data, ascii_len, 1) with ascii_data at s[i]: the
\* next character after s[i] that is in the alphabet or is "=", or -1
NextValid(s, i) ==
    LET later == {j \in (i + 1)..Len(s) : s[j] <= PAD}
    IN  IF later = {} THEN -1 ELSE s[Min(later)]

\* what a call that yields bytes gives back
Decoded(bytes) == [ok |-> TRUE, bytes |-> bytes]
BinasciiError == [ok |-> FALSE, bytes |-> <<>>]

\* The loop of binascii.a2b_base64 from s[i] on: characters outside the
\* alphabet are skipped, a "=" ends the input when it stands where padding
\* may stand and is skipped otherwise, and bits left over at the end are an
\* error ("Incorrect padding").
RECURSIVE A2BLoop(_, _, _, _, _, _)
A2BLoop(s, i, quad_pos, leftchar, leftbits, out) ==
    IF i > Len(s) THEN (IF leftbits # 0 THEN BinasciiError ELSE Decoded(out))
    ELSE IF s[i] = PAD
    THEN IF quad_pos < 2 \/ (quad_pos = 2 /\ NextValid(s, i) # PAD)
         THEN A2BLoop(s, i + 1, quad_pos, leftchar, leftbits, out)
         ELSE Decoded(out)
    ELSE IF s[i] > PAD
    THEN A2BLoop(s, i + 1, quad_pos, leftchar, leftbits, out)
    ELSE IF leftbits + 6 >= 8
    THEN A2BLoop(s, i + 1, (quad_pos + 1) % 4,
                 (leftchar * 64 + s[i]) % (2 ^ (leftbits - 2)), leftbits - 2,
                 Append(out, (leftchar * 64 + s[i]) \div (2 ^ (leftbits - 2))))
    ELSE A2BLoop(s, i + 1, (quad_pos + 1) % 4, leftchar * 64 + s[i],
                 leftbits + 6, out)

\* binascii.a2b_base64
a2b_base64(s) == A2BLoop(s, 1, 0, 0, 0, <<>>)

\* binascii.b2a_base64 without the newline it ends with
RECURSIVE B2ALoop(_)
B2ALoop(bytes) ==
    IF bytes = <<>> THEN <<>>
    ELSE IF Len(bytes) = 1
    THEN <<bytes[1] \div 4, (bytes[1] % 4) * 16, PAD, PAD>>
    ELSE IF Len(bytes) = 2
    THEN <<bytes[1] \div 4, (bytes[1] % 4) * 16 + bytes[2] \div 16,
           (bytes[2] % 16) * 4, PAD>>
    ELSE <<bytes[1] \div 4, (bytes[1] % 4) * 16 + bytes[2] \div 16,
           (bytes[2] % 16) * 4 + bytes[3] \div 64, bytes[3] % 64>>
         \o B2ALoop(SubSeq(bytes, 4, Len(bytes)))

\* binascii.b2a_base64
b2a_base64(bytes) == Append(B2ALoop(bytes), LINEFEED)

\* str.rstrip('\n')
RECURSIVE rstrip(_)
rstrip(s) ==
    IF s # <<>> /\ s[Len(s)] = LINEFEED THEN rstrip(SubSeq(s, 1, Len(s) - 1)) ELSE s

\* CookieInstaller(secureRandom, insecureName, secureName, domain, path, expires)
CookieInstaller(insecureName, secureName, domain, path, expires) ==
    [insecureName |-> insecureName, secureName |-> secureName,
     domain |-> domain, path |-> path, expires |-> expires]

\* request.addCookie(k, v, expires=, domain=, path=, secure=): one more cookie
\* on the response
addCookie(request, k, v, expires, domain, path, secure) ==
    [request EXCEPT !.cookies =
        Append(@, [name |-> k, value |-> v, expires |-> expires,
                   domain |-> domain, path |-> path, secure |-> secure])]

\* What getSet gives back: the session string and the request after it
GetSetResult(sess, request) == [sess |-> sess, request |-> request]

\* A variant that does not look at the length of the cookie
getSet_M1(self, request, rand) ==
    LET secure == request.secure
        k == IF secure THEN self.secureName ELSE self.insecureName
    IN  IF /\ k \in DOMAIN request.received_cookies
           /\ request.received_cookies[k] # <<>>
           /\ a2b_base64(request.received_cookies[k]).ok
           /\ Len(a2b_base64(request.received_cookies[k]).bytes) = 16
        THEN GetSetResult(a2b_base64(request.received_cookies[k]).bytes, request)
        ELSE GetSetResult(rand,
                 addCookie(request, k, rstrip(b2a_base64(rand)), self.expires,
                           self.domain, self.path, secure))

\* A variant that always uses the insecure cookie name
getSet_M2(self, request, rand) ==
    LET secure == request.secure
        k == self.insecureName
    IN  IF /\ k \in DOMAIN request.received_cookies
           /\ request.received_cookies[k] # <<>>
           /\ Len(request.received_cookies[k]) = 24
           /\ a2b_base64(request.received_cookies[k]).ok
           /\ Len(a2b_base64(request.received_cookies[k]).bytes) = 16
        THEN GetSetResult(a2b_base64(request.received_cookies[k]).bytes, request)
        ELSE GetSetResult(rand,
                 addCookie(request, k, rstrip(b2a_base64(rand)), self.expires,
                           self.domain, self.path, secure))

\* A variant that leaves the line feed of b2a_base64 at the end of the cookie
getSet_M3(self, request, rand) ==
    LET secure == request.secure
        k == IF secure THEN self.secureName ELSE self.insecureName
    IN  IF /\ k \in DOMAIN request.received_cookies
           /\ request.received_cookies[k] # <<>>
           /\ Len(request.received_cookies[k]) = 24
           /\ a2b_base64(request.received_cookies[k]).ok
           /\ Len(a2b_base64(request.received_cookies[k]).bytes) = 16
        THEN GetSetResult(a2b_base64(request.received_cookies[k]).bytes, request)
        ELSE GetSetResult(rand,
                 addCookie(request, k, b2a_base64(rand), self.expires,
                           self.domain, self.path, secure))

\* CookieInstaller.getSet; rand is what self._secureRandom(16) returns when
\* it is called.  request.getCookie(k) is None when no cookie k was received.
getSet(self, request, rand) ==
    LET secure == request.secure
        k == IF secure THEN self.secureName ELSE self.insecureName
    IN  IF /\ k \in DOMAIN request.received_cookies
           /\ request.received_cookies[k] # <<>>
           /\ Len(request.received_cookies[k]) = 24
           /\ a2b_base64(request.received_cookies[k]).ok
           /\ Len(a2b_base64(request.received_cookies[k]).bytes) = 16
        THEN GetSetResult(a2b_base64(request.received_cookies[k]).bytes, request)
        ELSE GetSetResult(rand,
                 addCookie(request, k, rstrip(b2a_base64(rand)), self.expires,
                           self.domain, self.path, secure))

-----------------------------------------------------------------------------
(* The requests a CookieInstaller is given: HTTP or HTTPS, with any cookie *)
(* value a client may send under either of the two names.                  *)

InsecureName == "__"
SecureName == "_s"
CookieNames == {InsecureName, SecureName}

DefaultInstaller ==
    CookieInstaller(InsecureName, SecureName, None, "/",
                    "Sat, 08 Dec 2029 23:55:42 GMT")
CustomInstaller ==
    CookieInstaller(InsecureName, SecureName, Lit(".customdomain.com"), "/what",
                    "NEVER EVER")
Installers == {DefaultInstaller, CustomInstaller}

\* n times the byte or character b
Rep(n, b) == [i \in 1..n |-> b]

\* what secureRandom may return for 16 bytes
Randoms ==
    {Rep(16, 120), Rep(16, 0), Rep(16, 255),
     [i \in 1..16 |-> (37 * i + 11) % 256]}

B64(bytes) == rstrip(b2a_base64(bytes))

\* 16 zero bytes in base64, and the same bytes written with other bits in
\* the part of the last character that carries no data
ZeroCookie == B64(Rep(16, 0))
LooseCookie == Rep(21, 0) \o <<5, PAD, PAD>>

WrongCookies ==
    {<<>>, <<NUL>>, B64(Rep(15, 0)), B64(Rep(17, 0)),
     SubSeq(ZeroCookie, 1, 22),
     ZeroCookie \o <<NUL>>, ZeroCookie \o <<SEMICOLON>>, ZeroCookie \o <<PAD>>,
     ZeroCookie \o <<LINEFEED>>,
     Rep(21, 0) \o <<NUL, PAD, PAD>>,
     Rep(22, 0) \o <<PAD, NUL>>,
     Rep(22, 0) \o <<NUL, NUL>>,
     <<PAD>> \o Rep(22, 0) \o <<PAD>>,
     Rep(20, 0) \o Rep(4, PAD),
     Rep(24, 7),
     Rep(24, NUL)}

RightCookies == {ZeroCookie, LooseCookie} \cup {B64(r) : r \in Randoms}

CookieValues == WrongCookies \cup RightCookies

ReceivedCookies ==
    UNION {[names -> CookieValues] : names \in SUBSET CookieNames}

CookieRequest(secure, received) ==
    [secure |-> secure, received_cookies |-> received, cookies |-> <<>>]

InitCookie ==
    /\ fs = InitFiles /\ clock = 0 /\ fileCache = NoEntries /\ cssCache = NoEntries
    /\ last = NoCall("init") /\ inflight = 0
    /\ fixIn = NotUnderTest /\ fixOut = NotUnderTest
    /\ treeIn = NotUnderTest /\ treeOut = NotUnderTest
    /\ \E secure \in BOOLEAN, received \in ReceivedCookies :
          httpRequest = CookieRequest(secure, received)
    /\ outcome = [ran |-> FALSE]
    /\ stopper = NotUnderTest /\ reactor = NotUnderTest /\ tracking = NotUnderTest

\* getSet is called on the request
GetSet ==
    /\ ~outcome.ran
    /\ \E self \in Installers, rand \in Randoms :
       \E r \in {getSet(self, httpRequest, rand)} :
          /\ httpRequest' = r.request
          /\ outcome' = [ran |-> TRUE, sess |-> r.sess, self |-> self,
                         rand |-> rand, before |-> httpRequest]
    /\ UNCHANGED <<fs, clock, fileCache, cssCache, last, inflight, fixIn,
                   fixOut, treeIn, treeOut, stopper, reactor,
                   tracking>>

\* What the client holds after the response: the cookies it sent, with the
\* cookies the response set in place of those of the same name
RECURSIVE Jar(_, _)
Jar(received, cookies) ==
    IF cookies = <<>> THEN received
    ELSE Jar([n \in DOMAIN received \cup {cookies[1].name} |->
                 IF n = cookies[1].name THEN cookies[1].value ELSE received[n]],
             Tail(cookies))

\* The client sends its next request, over HTTP or HTTPS, with the cookies it
\* holds; a cookie set with the Secure flag is not sent over HTTP.
NextRequest ==
    /\ outcome.ran
    /\ \E secure \in BOOLEAN :
          httpRequest' = CookieRequest(secure,
              [n \in {m \in DOMAIN Jar(httpRequest.received_cookies, httpRequest.cookies) :
                         secure \/ \A i \in 1..Len(httpRequest.cookies) :
                             httpRequest.cookies[i].name = m => ~httpRequest.cookies[i].secure}
                  |-> Jar(httpRequest.received_cookies, httpRequest.cookies)[n]])
    /\ outcome' = [ran |-> FALSE]
    /\ UNCHANGED <<fs, clock, fileCache, cssCache, last, inflight, fixIn,
                   fixOut, treeIn, treeOut, stopper, reactor,
                   tracking>>

NextCookie == GetSet \/ NextRequest

SpecCookie == InitCookie /\ [][NextCookie]_vars

(* The vocabulary of the claims about getSet *)

\* the name of the cookie that belongs to the scheme of the request
NameFor(self, request) ==
    IF request.secure THEN self.secureName ELSE self.insecureName

\* v is 22 characters of the alphabet and then "==": the 24 characters that
\* stand for 16 bytes
Stands16(v) ==
    /\ Len(v) = 24
    /\ \A i \in 1..22 : v[i] < PAD
    /\ v[23] = PAD /\ v[24] = PAD

\* byte j of what the characters of v stand for, four characters giving
\* three bytes
ByteOf(v, j) ==
    LET g == 4 * ((j - 1) \div 3)
    IN  CASE (j - 1) % 3 = 0 -> v[g + 1] * 4 + v[g + 2] \div 16
          [] (j - 1) % 3 = 1 -> (v[g + 2] % 16) * 16 + v[g + 3] \div 4
          [] OTHER -> (v[g + 3] % 4) * 64 + v[g + 4]
Bytes16(v) == [j \in 1..16 |-> ByteOf(v, j)]

\* the request carried a cookie that stands for 16 bytes under the name n
Carried(n) ==
    /\ n \in DOMAIN outcome.before.received_cookies
    /\ Stands16(outcome.before.received_cookies[n])

\* C14: getSet returns what the cookie under the selected name stands for, and
\* adds no cookie, exactly when that cookie is 24 characters that decode to 16
\* bytes; in every other case it returns the 16 bytes of secureRandom and
\* adds exactly one cookie, whose value is those bytes in base64 and whose
\* expires, domain and path are the configured ones.
C14_ReadOrReplace ==
    outcome.ran =>
        IF Carried(NameFor(outcome.self, outcome.before))
        THEN /\ outcome.sess =
                  Bytes16(outcome.before.received_cookies[NameFor(outcome.self, outcome.before)])
             /\ httpRequest.cookies = <<>>
        ELSE /\ outcome.sess = outcome.rand
             /\ Len(outcome.sess) = 16
             /\ Len(httpRequest.cookies) = 1
             /\ Stands16(httpRequest.cookies[1].value)
             /\ Bytes16(httpRequest.cookies[1].value) = outcome.rand
             /\ httpRequest.cookies[1].expires = outcome.self.expires
             /\ httpRequest.cookies[1].domain = outcome.self.domain
             /\ httpRequest.cookies[1].path = outcome.self.path

\* a cookie of 24 characters that do not decode was replaced by a new cookie
C14_Witness ==
    /\ outcome.ran
    /\ ~outcome.before.secure
    /\ InsecureName \in DOMAIN outcome.before.received_cookies
    /\ outcome.before.received_cookies[InsecureName] = Rep(22, 0) \o <<PAD, NUL>>
    /\ outcome.self = CustomInstaller
    /\ outcome.sess = outcome.rand
    /\ Len(httpRequest.cookies) = 1

\* C15: only the cookie that belongs to the scheme is read and set: over
\* HTTPS the secure name, set with the Secure flag, and over HTTP the
\* insecure name, set without it; what the other name carries is never
\* returned on its account.
C15_SchemeSelectsCookie ==
    outcome.ran =>
        /\ \A i \in 1..Len(httpRequest.cookies) :
              /\ httpRequest.cookies[i].name =
                     (IF outcome.before.secure THEN SecureName ELSE InsecureName)
              /\ httpRequest.cookies[i].secure = outcome.before.secure
        /\ httpRequest.cookies = <<>> =>
              Carried(IF outcome.before.secure THEN SecureName ELSE InsecureName)
        /\ ~Carried(IF outcome.before.secure THEN SecureName ELSE InsecureName) =>
              outcome.sess = outcome.rand

\* over HTTPS a right cookie under the insecure name was passed over, and the
\* secure cookie was set
C15_Witness ==
    /\ outcome.ran
    /\ outcome.before.secure
    /\ Carried(InsecureName)
    /\ ~Carried(SecureName)
    /\ Len(httpRequest.cookies) = 1
    /\ httpRequest.cookies[1].name = SecureName
    /\ httpRequest.cookies[1].secure
    /\ outcome.sess # Bytes16(outcome.before.received_cookies[InsecureName])

-----------------------------------------------------------------------------
(* A response that may already have headers: the caching headers are set   *)
(* on it, and a BetterResource is rendered for it.                         *)

MaxTime == 3

One == Str(<<Lit("one")>>)
Two == Str(<<Lit("two")>>)

\* the headers a response has before the calls, as in
\* test_requestAlreadyHasHeaders, in whole and in parts
PriorHeaders ==
    {NoHeaders,
     ("extra" :> <<One, Two>>),
     ("expires" :> <<Str(<<Lit("sometime")>>)>>),
     ("cache-control" :> <<Str(<<Lit("X")>>), Str(<<Lit("Y")>>)>>)
        @@ ("date" :> <<Str(<<Lit("whenever")>>)>>)
        @@ ("expires" :> <<Str(<<Lit("sometime")>>)>>)
        @@ ("extra" :> <<One, Two>>),
     ("date" :> <<>>) @@ ("pragma" :> <<Str(<<Lit("cache")>>)>>)
        @@ ("expires" :> <<One, Two>>)}

CacheTimes == {0, 1, 3600}
CacheOptionsSet ==
    {ResponseCacheOptions(t, p, q) : t \in CacheTimes, p \in BOOLEAN, q \in BOOLEAN}

RenderKinds == {"CSSResource", "DisplayConnections", "NonLeaf"}

HeadersRequest(secure, headers) == [secure |-> secure, responseHeaders |-> headers]

InitHeaders ==
    /\ fs = InitFiles /\ clock = 0 /\ fileCache = NoEntries /\ cssCache = NoEntries
    /\ last = NoCall("init") /\ inflight = 0
    /\ fixIn = NotUnderTest /\ fixOut = NotUnderTest
    /\ treeIn = NotUnderTest /\ treeOut = NotUnderTest
    /\ \E secure \in BOOLEAN, headers \in PriorHeaders :
          httpRequest = HeadersRequest(secure, headers)
    /\ outcome = [op |-> "none", raised |-> None]
    /\ stopper = NotUnderTest /\ reactor = NotUnderTest /\ tracking = NotUnderTest

SetCachingHeaders ==
    /\ \E cacheOptions \in CacheOptionsSet, timeNow \in 0..MaxTime :
          /\ httpRequest' = setCachingHeadersOnRequest(httpRequest, cacheOptions, timeNow)
          /\ outcome' = [op |-> "setCachingHeadersOnRequest", raised |-> None,
                         cacheOptions |-> cacheOptions, timeNow |-> timeNow]
    /\ UNCHANGED <<fs, clock, fileCache, cssCache, last, inflight, fixIn,
                   fixOut, treeIn, treeOut, stopper, reactor,
                   tracking>>

\* render is called on a BetterResource for the request
RenderBetter ==
    /\ \E kind \in RenderKinds, works \in BOOLEAN,
          cacheOptions \in CacheOptionsSet, timeNow \in 0..MaxTime :
       \E r \in {render(kind, httpRequest, works, cacheOptions, timeNow)} :
          /\ httpRequest' = r.request
          /\ outcome' = [op |-> "render", raised |-> IF r.ok THEN None ELSE <<"raised">>,
                         kind |-> kind, works |-> works]
    /\ UNCHANGED <<fs, clock, fileCache, cssCache, last, inflight, fixIn,
                   fixOut, treeIn, treeOut, stopper, reactor,
                   tracking>>

NextHeaders == SetCachingHeaders \/ RenderBetter

SpecHeaders == InitHeaders /\ [][NextHeaders]_vars

\* the one value of the header name, when it has exactly one
Only(name) ==
    IF name \in DOMAIN httpRequest.responseHeaders
       /\ Len(httpRequest.responseHeaders[name]) = 1
    THEN httpRequest.responseHeaders[name][1]
    ELSE Obj("NoneType", <<>>)

SecondsOf(timeNow) == timeNow \div Resolution

\* C16: after setCachingHeadersOnRequest, Date is the time of getTime; for
\* cacheTime t > 0, Expires is Date + t seconds and Cache-Control is
\* 'max-age=t, public' when (HTTPS and httpsCachePublic) or (HTTP and
\* httpCachePublic), and 'max-age=t, private' otherwise; for cacheTime 0,
\* Expires is '-1' and Cache-Control is 'max-age=0, private' whatever the flags.
C16_CachingHeaders ==
    outcome.op = "setCachingHeadersOnRequest" =>
        /\ Only("date") = Str(<<HttpDate(SecondsOf(outcome.timeNow))>>)
        /\ outcome.cacheOptions.cacheTime > 0 =>
              /\ Only("expires") =
                     Str(<<HttpDate(SecondsOf(outcome.timeNow)
                                    + outcome.cacheOptions.cacheTime)>>)
              /\ Only("cache-control") =
                     Str(<<Lit("max-age="), Dec(outcome.cacheOptions.cacheTime),
                           COMMASPACE,
                           Lit(IF \/ httpRequest.secure /\ outcome.cacheOptions.httpsCachePublic
                                  \/ ~httpRequest.secure /\ outcome.cacheOptions.httpCachePublic
                               THEN "public" ELSE "private")>>)
        /\ outcome.cacheOptions.cacheTime = 0 =>
              /\ Only("expires") = Str(<<Lit("-1")>>)
              /\ Only("cache-control") =
                     Str(<<Lit("max-age="), Dec(0), COMMASPACE, Lit("private")>>)

\* over HTTPS, with a time between two seconds, a response was made public
C16_Witness ==
    /\ outcome.op = "setCachingHeadersOnRequest"
    /\ httpRequest.secure
    /\ outcome.cacheOptions = ResponseCacheOptions(3600, FALSE, TRUE)
    /\ outcome.timeNow % Resolution # 0
    /\ Only("cache-control") = MaxAgeText(3600, "public")

CachingNames == {"date", "expires", "cache-control"}

\* C17: a step of setCachingHeadersOnRequest leaves Date, Expires and
\* Cache-Control with one value each, whatever values they had, and leaves
\* every other header with the values it had.
C17_ReplacesOnlyThree ==
    [][outcome'.op = "setCachingHeadersOnRequest" =>
          /\ \A n \in CachingNames :
                /\ n \in DOMAIN httpRequest'.responseHeaders
                /\ Len(httpRequest'.responseHeaders[n]) = 1
                /\ httpRequest'.responseHeaders[n][1] \in
                       {datetimeToString(outcome'.timeNow),
                        datetimeToString(outcome'.timeNow
                            + Resolution * outcome'.cacheOptions.cacheTime),
                        MinusOne, MaxAgeZeroPrivate,
                        MaxAgeText(outcome'.cacheOptions.cacheTime, "public"),
                        MaxAgeText(outcome'.cacheOptions.cacheTime, "private")}
          /\ DOMAIN httpRequest'.responseHeaders
                = DOMAIN httpRequest.responseHeaders \cup CachingNames
          /\ \A n \in DOMAIN httpRequest.responseHeaders \ CachingNames :
                httpRequest'.responseHeaders[n] = httpRequest.responseHeaders[n]
          /\ httpRequest'.secure = httpRequest.secure]_vars

\* headers that were there were replaced, and the others were kept
C17_Witness ==
    /\ outcome.op = "setCachingHeadersOnRequest"
    /\ "pragma" \in DOMAIN httpRequest.responseHeaders
    /\ httpRequest.responseHeaders["pragma"] = <<Str(<<Lit("cache")>>)>>
    /\ Only("date") = datetimeToString(outcome.timeNow)
    /\ Only("expires") = MinusOne
    /\ Only("cache-control") = MaxAgeZeroPrivate

\* C18: when the render of a BetterResource fails, the exception reaches the
\* caller and the response has Cache-Control 'no-cache, no-store, max-age=0,
\* must-revalidate', Pragma 'no-cache' and Expires '-1' in place of whatever
\* cache headers it had; a CSSResource whose processing fails has written no
\* header of its own by then.
C18_FailureIsNotCached ==
    outcome.op = "render" =>
        /\ (outcome.kind = "NonLeaf" \/ ~outcome.works) <=> outcome.raised # None
        /\ outcome.raised # None =>
              /\ Only("cache-control") =
                     Str(<<Lit("no-cache, no-store, max-age=0, must-revalidate")>>)
              /\ Only("pragma") = Str(<<Lit("no-cache")>>)
              /\ Only("expires") = Str(<<Lit("-1")>>)
        /\ (outcome.kind = "CSSResource" /\ outcome.raised # None) =>
              Only("content-type") = Str(<<Lit("text/html; charset=UTF-8")>>)

\* the render of a CSSResource failed on a response that had caching headers
C18_Witness ==
    /\ outcome.op = "render"
    /\ outcome.kind = "CSSResource"
    /\ outcome.raised # None
    /\ Only("date") = datetimeToString(MaxTime)
    /\ Only("cache-control") = NoCacheNoStore
    /\ Only("expires") = MinusOne

\* C19: when the source of style.css cannot be read, the call of
\* _getProcessedCSS raises, having asked FileCache for the source once and
\* for nothing else, without running _process, and the cache map is as it
\* was before the call.
C19_ReadFailurePropagates ==
    [][(IsRender /\ ~SourceRead.ok) =>
          /\ ~last'.ok
          /\ ~last'.read /\ ~last'.checked /\ last'.ran = 0
          /\ fileCache' = SourceRead.fc
          /\ cssCache' = cssCache]_vars

\* style.css was deleted after it had been served, and the call that could
\* not read it raised and left the entry in the cache map
C19_Witness ==
    /\ last.op = "render" /\ ~last.ok /\ ~last.read /\ last.hadEntry
    /\ CssPath \notin DOMAIN fs
    /\ HasEntry

-----------------------------------------------------------------------------
(* The headers of a response on which setRawHeadersSafely and               *)
(* addRawHeaderSafely are called in any order, with valid and invalid      *)
(* arguments.                                                               *)

MaxValues == 2

WithCR == Str(<<Lit("a"), CR, Lit("b")>>)
WithLF == Str(<<Lit("a"), NEWLINE>>)
UnicodeOne == Obj("unicode", <<Lit("one")>>)
UnicodeLF == Obj("unicode", <<NEWLINE>>)

HeaderValues == {One, Two, WithCR, WithLF, UnicodeOne, UnicodeLF}

\* a Python list of the values in items, and objects that are not lists
List(items) == [type |-> "list", items |-> items]
ValuesArgs ==
    {List(<<>>)} \cup {List(<<v>>) : v \in HeaderValues}
    \cup {List(<<v, w>>) : v \in HeaderValues, w \in HeaderValues \ {Two}}
    \cup {[type |-> "tuple", items |-> <<One>>], [type |-> "str", items |-> <<One>>]}

HeaderNames == {"extra", "location"}

InitSafe ==
    /\ fs = InitFiles /\ clock = 0 /\ fileCache = NoEntries /\ cssCache = NoEntries
    /\ last = NoCall("init") /\ inflight = 0
    /\ fixIn = NotUnderTest /\ fixOut = NotUnderTest
    /\ treeIn = NotUnderTest /\ treeOut = NotUnderTest
    /\ httpRequest = HeadersRequest(FALSE, NoHeaders)
    /\ outcome = [op |-> "none", raised |-> None]
    /\ stopper = NotUnderTest /\ reactor = NotUnderTest /\ tracking = NotUnderTest

SetRawHeadersSafely ==
    /\ \E name \in HeaderNames, values \in ValuesArgs :
       \E r \in {setRawHeadersSafely(httpRequest.responseHeaders, name, values)} :
          /\ httpRequest' = [httpRequest EXCEPT !.responseHeaders = r.headers]
          /\ outcome' = [op |-> "setRawHeadersSafely", raised |-> r.raised,
                         name |-> name, values |-> values]
    /\ UNCHANGED <<fs, clock, fileCache, cssCache, last, inflight, fixIn,
                   fixOut, treeIn, treeOut, stopper, reactor,
                   tracking>>

\* at most MaxValues values are kept under a name
AddRawHeaderSafely ==
    /\ \E name \in HeaderNames, value \in HeaderValues :
       \E r \in {addRawHeaderSafely(httpRequest.responseHeaders, name, value)} :
          /\ name \in DOMAIN httpRequest.responseHeaders =>
                Len(httpRequest.responseHeaders[name]) < MaxValues
          /\ httpRequest' = [httpRequest EXCEPT !.responseHeaders = r.headers]
          /\ outcome' = [op |-> "addRawHeaderSafely", raised |-> r.raised,
                         name |-> name, values |-> List(<<value>>)]
    /\ UNCHANGED <<fs, clock, fileCache, cssCache, last, inflight, fixIn,
                   fixOut, treeIn, treeOut, stopper, reactor,
                   tracking>>

NextSafe == SetRawHeadersSafely \/ AddRawHeaderSafely

SpecSafe == InitSafe /\ [][NextSafe]_vars

\* the text has a CR or an LF in it
Splits(text) == \E i \in 1..Len(text) : text[i] \in {CR, NEWLINE}

\* no value of the headers has a CR or an LF in it
Clean(headers) ==
    \A n \in DOMAIN headers : \A i \in 1..Len(headers[n]) : ~Splits(headers[n][i].text)

\* the items of the argument that are not a str, and those that are a str
\* with a CR or an LF
NotStr(values) == {i \in 1..Len(values.items) : values.items[i].type # "str"}
Splitting(values) ==
    {i \in 1..Len(values.items) :
        values.items[i].type = "str" /\ Splits(values.items[i].text)}

\* C20: every step of setRawHeadersSafely or addRawHeaderSafely leaves headers
\* in which no value has a CR or an LF; it raises exactly when the values are
\* not a list or one of them is not a str or has a CR or an LF in it:
\* TypeError for what is not a list or not a str, ValueError for a str with a
\* CR or an LF, by the first value that is wrong; and whenever it raises, the
\* headers are as they were, also when only a later value is wrong.
C20_NoSplitValueStored ==
    [][outcome'.op \in {"setRawHeadersSafely", "addRawHeaderSafely"} =>
          /\ Clean(httpRequest'.responseHeaders)
          /\ outcome'.raised # None <=>
                \/ outcome'.values.type # "list"
                \/ NotStr(outcome'.values) \cup Splitting(outcome'.values) # {}
          /\ outcome'.raised = <<"TypeError">> <=>
                \/ outcome'.values.type # "list"
                \/ /\ NotStr(outcome'.values) # {}
                   /\ \A i \in Splitting(outcome'.values) :
                         \E j \in NotStr(outcome'.values) : j < i
          /\ outcome'.raised = <<"ValueError">> <=>
                /\ outcome'.values.type = "list"
                /\ Splitting(outcome'.values) # {}
                /\ \A j \in NotStr(outcome'.values) :
                      \E i \in Splitting(outcome'.values) : i < j
          /\ outcome'.raised # None =>
                httpRequest'.responseHeaders = httpRequest.responseHeaders
          /\ outcome'.raised = None =>
                /\ outcome'.name \in DOMAIN httpRequest'.responseHeaders
                /\ \A n \in DOMAIN httpRequest.responseHeaders \ {outcome'.name} :
                      /\ n \in DOMAIN httpRequest'.responseHeaders
                      /\ httpRequest'.responseHeaders[n] = httpRequest.responseHeaders[n]]_vars

\* a list whose second value has a CR was refused, and the header it was
\* meant for kept the value it had
C20_Witness ==
    /\ outcome.op = "setRawHeadersSafely"
    /\ outcome.raised = <<"ValueError">>
    /\ outcome.values = List(<<One, WithCR>>)
    /\ outcome.name \in DOMAIN httpRequest.responseHeaders
    /\ httpRequest.responseHeaders[outcome.name] = <<Two>>

-----------------------------------------------------------------------------
(* csrf: CsrfStopper.  A str is a sequence of bytes, and a token is a       *)
(* sequence of characters as a cookie value is, with two more characters,  *)
(* "-" and "_", which the URL-safe alphabet has in place of "+" and "/".   *)

PLUS == 62
SOLIDUS == 63
DASH == 68
UNDERSCORE == 69

\* str.translate of the two characters a for x and b for y
Translate(s, a, x, b, y) ==
    [i \in 1..Len(s) |-> IF s[i] = a THEN x ELSE IF s[i] = b THEN y ELSE s[i]]

\* base64.urlsafe_b64encode
urlsafe_b64encode(bytes) ==
    Translate(B2ALoop(bytes), PLUS, DASH, SOLIDUS, UNDERSCORE)

\* base64.urlsafe_b64decode: ok is FALSE when it raises TypeError, which it
\* does when binascii.a2b_base64 raises
urlsafe_b64decode(s) ==
    a2b_base64(Translate(s, DASH, PLUS, UNDERSCORE, SOLIDUS))

\* x ^ y and x | y of two numbers
RECURSIVE BitXor(_, _)
BitXor(x, y) ==
    IF x = 0 /\ y = 0 THEN 0
    ELSE ((x + y) % 2) + 2 * BitXor(x \div 2, y \div 2)

RECURSIVE BitOr(_, _)
BitOr(x, y) ==
    IF x = 0 /\ y = 0 THEN 0
    ELSE (IF x % 2 = 1 \/ y % 2 = 1 THEN 1 ELSE 0) + 2 * BitOr(x \div 2, y \div 2)

\* the loop of constantTimeCompare over zip(s1, s2) from the i-th pair on
RECURSIVE CompareLoop(_, _, _, _)
CompareLoop(s1, s2, i, result) ==
    IF i > Len(s1) \/ i > Len(s2) THEN result
    ELSE CompareLoop(s1, s2, i + 1, BitOr(result, BitXor(s1[i], s2[i])))

\* A variant that does not compare the lengths
constantTimeCompare_M1(s1, s2) == CompareLoop(s1, s2, 1, 0) = 0

\* constantTimeCompare, of two str
constantTimeCompare(s1, s2) ==
    IF Len(s1) # Len(s2) THEN FALSE
    ELSE CompareLoop(s1, s2, 1, 0) = 0

\* the number a str stands for in the digest below
RECURSIVE Code(_)
Code(bytes) ==
    IF bytes = <<>> THEN 1 ELSE (bytes[1] + 1 + 5 * Code(Tail(bytes))) % 251

\* hmac.new(secretString, what, hashlib.sha256).digest(): 32 bytes that
\* differ when the secret or the message differ
HmacSha256(secretString, what) ==
    [i \in 1..32 |-> (113 * Code(secretString) + 59 * Code(what) + 91 * i) % 256]

CsrfStopper(secretString) == [secretString |-> secretString]

version == <<0, 0>>

\* CsrfStopper._hash
_hash(self, what) == SubSeq(HmacSha256(self.secretString, what), 1, 16)

\* CsrfStopper.makeToken
makeToken(self, uuid) == urlsafe_b64encode(version \o _hash(self, uuid))

\* RejectToken(), raised with no argument
RejectToken == <<"RejectToken">>

\* CsrfStopper.checkToken: what it raises, or None
checkToken(self, uuidStr, token) ==
    With(urlsafe_b64decode(token), LAMBDA expected :
        IF ~expected.ok THEN RejectToken
        ELSE IF ~constantTimeCompare(expected.bytes, version \o _hash(self, uuidStr))
        THEN RejectToken
        ELSE None)

-----------------------------------------------------------------------------
(* A CsrfStopper with one secret: tokens are made for uuids, and tokens of *)
(* every kind are checked against uuids.                                   *)

Secrets == {<<1>>, <<2, 3>>}
Uuids == {<<>>, <<7>>, <<7, 8>>}

\* what a client may send in place of the token t
Variants(t) ==
    {t,
     Translate(t, DASH, PLUS, UNDERSCORE, SOLIDUS),
     t \o <<NUL>>,
     <<NUL>> \o t,
     SubSeq(t, 1, Len(t) - 1),
     SubSeq(t, 1, Len(t) - 4),
     t \o SubSeq(t, 1, 4),
     [i \in 1..Len(t) |-> IF i = 5 THEN (IF t[i] = 0 THEN 1 ELSE 0) ELSE t[i]]}

\* the tokens that are checked: those made with any secret for any uuid and
\* what may be sent in their place, tokens of other bytes, and characters
\* that are no token
Tokens ==
    UNION {Variants(makeToken(CsrfStopper(k), u)) : k \in Secrets, u \in Uuids}
    \cup {urlsafe_b64encode(_hash(CsrfStopper(k), u)) : k \in Secrets, u \in Uuids}
    \cup {urlsafe_b64encode(<<0, 1>> \o _hash(CsrfStopper(k), u)) :
             k \in Secrets, u \in Uuids}
    \cup {urlsafe_b64encode(SubSeq(version \o _hash(CsrfStopper(k), u), 1, 17)) :
             k \in Secrets, u \in Uuids}
    \cup {<<>>, <<PAD>>, <<5>>, <<NUL, SEMICOLON>>}

InitCsrf ==
    /\ fs = InitFiles /\ clock = 0 /\ fileCache = NoEntries /\ cssCache = NoEntries
    /\ last = NoCall("init") /\ inflight = 0
    /\ fixIn = NotUnderTest /\ fixOut = NotUnderTest
    /\ treeIn = NotUnderTest /\ treeOut = NotUnderTest
    /\ httpRequest = NotUnderTest
    /\ outcome = [op |-> "none", raised |-> None]
    /\ \E k \in Secrets : stopper = CsrfStopper(k)
    /\ reactor = NotUnderTest /\ tracking = NotUnderTest

MakeToken ==
    /\ \E u \in Uuids :
          outcome' = [op |-> "makeToken", raised |-> None, uuid |-> u,
                      token |-> makeToken(stopper, u)]
    /\ UNCHANGED <<fs, clock, fileCache, cssCache, last, inflight, fixIn,
                   fixOut, treeIn, treeOut, httpRequest, stopper, reactor,
                   tracking>>

CheckToken ==
    /\ \E u \in Uuids, t \in Tokens :
          outcome' = [op |-> "checkToken", raised |-> checkToken(stopper, u, t),
                      uuid |-> u, token |-> t]
    /\ UNCHANGED <<fs, clock, fileCache, cssCache, last, inflight, fixIn,
                   fixOut, treeIn, treeOut, httpRequest, stopper, reactor,
                   tracking>>

NextCsrf == MakeToken \/ CheckToken

SpecCsrf == InitCsrf /\ [][NextCsrf]_vars

\* the token decodes to the version and the hash of the uuid under the secret
DecodesFor(t, u) ==
    /\ urlsafe_b64decode(t).ok
    /\ urlsafe_b64decode(t).bytes = version \o _hash(stopper, u)

\* C21: with the secret of the stopper, the token made for a uuid passes the
\* check for that uuid; a check passes only for a token that decodes to
\* version + HMAC(secret, uuid), so a token made for another uuid is
\* rejected; and every rejection, of a token that does not decode as of one
\* that decodes to other bytes, is the same RejectToken without arguments.
C21_TokenMatchesUuid ==
    /\ outcome.op = "makeToken" =>
          /\ checkToken(stopper, outcome.uuid, outcome.token) = None
          /\ \A u \in Uuids \ {outcome.uuid} :
                checkToken(stopper, u, outcome.token) = <<"RejectToken">>
    /\ outcome.op = "checkToken" =>
          /\ outcome.raised = None <=> DecodesFor(outcome.token, outcome.uuid)
          /\ outcome.raised # None => outcome.raised = <<"RejectToken">>
          /\ \A u \in Uuids \ {outcome.uuid} :
                outcome.token = makeToken(stopper, u) => outcome.raised # None

\* a token that is the first bytes of the right one was rejected
C21_Witness ==
    /\ outcome.op = "checkToken"
    /\ outcome.uuid = <<7, 8>>
    /\ outcome.token =
           urlsafe_b64encode(SubSeq(version \o _hash(stopper, outcome.uuid), 1, 17))
    /\ urlsafe_b64decode(outcome.token).ok
    /\ outcome.raised = <<"RejectToken">>

-----------------------------------------------------------------------------
(* The references of the cache entry of style.css and the url(...) of its  *)
(* processed content                                                       *)

\* the relative url(...) of the processed content of the entry, in order
EntryMatches ==
    SelectSeq(FindAll(cssCache[CssPath].processed, 1), RelativeMatch)

\* the file the href of such a match names, the cachebreaker apart, resolved
\* against the directory of style.css
FileOf(m) ==
    Enter(SubSeq(CssPath, 1, Len(CssPath) - 1),
          Split(SubSeq(HrefOf(m), 1, Len(HrefOf(m)) - 2)))

\* the cachebreaker written after "?cb=" in the match
BreakerOf(m) == HrefOf(m)[Len(HrefOf(m))]

\* C22 as claimed: the references of the entry are exactly the files its
\* processed content refers to, in order of appearance, each with the hash
\* written as its cachebreaker (so that the staleness check watches every
\* file the content refers to, also one that was missing).
C22_ReferencesMatchContent ==
    HasEntry =>
        /\ Len(cssCache[CssPath].references) = Len(EntryMatches)
        /\ \A k \in 1..Len(EntryMatches) :
              k <= Len(cssCache[CssPath].references) =>
                 cssCache[CssPath].references[k]
                     = ReferencedFile(FileOf(EntryMatches[k]), BreakerOf(EntryMatches[k]))

\* C22 fails here: two.png was missing when the entry was computed and is
\* there now, and a call served the entry, whose content still says
\* not-found for it, without running _process.
C22_Witness ==
    /\ last.op = "render" /\ last.ok /\ last.hadEntry /\ last.ran = 0
    /\ TwoPng \in DOMAIN fs
    /\ \E k \in 1..Len(EntryMatches) :
          /\ FileOf(EntryMatches[k]) = TwoPng
          /\ BreakerOf(EntryMatches[k]) = NOTFOUND
    /\ last.value = cssCache[CssPath].processed
    /\ Len(cssCache[CssPath].references) = 1

-----------------------------------------------------------------------------
(* CSSResource.getCacheBreaker, called by pathmanip.getBreakerForResource  *)
(* for a page or a style sheet that links to style.css                     *)

\* CSSResource.getCacheBreaker: the digest of the entry of the path when
\* there is one; else _getProcessedCSS is called and the digest of the
\* entry it stored is returned.  The digest comes back as a text of one atom.
getCacheBreaker(fc, css, files, now, site, request, path) ==
    IF path \in DOMAIN css
    THEN CssOutcome(TRUE, <<css[path].digest>>, fc, css, 0, FALSE, FALSE, FALSE, FALSE)
    ELSE With(_getProcessedCSS(fc, css, files, now, site, request, path), LAMBDA r :
             IF ~r.ok THEN r
             ELSE [r EXCEPT !.value = <<r.css[path].digest>>])

\* getCacheBreaker() of a CSSResource located for style.css
GetCacheBreaker ==
    \E r \in {getCacheBreaker(fileCache, cssCache, fs, clock, CssSite,
                             CssRequest, CssPath)} :
        /\ inflight > 0
        /\ fileCache' = r.fc
        /\ cssCache' = r.css
        /\ last' = [op |-> "getCacheBreaker", ok |-> r.ok, value |-> r.value,
                    ran |-> r.ran, read |-> r.read, maybeNew |-> r.maybeNew,
                    checked |-> r.checked, updated |-> r.updated,
                    hadEntry |-> CssPath \in DOMAIN cssCache,
                    response |-> CssResponse]
        /\ UNCHANGED <<fs, clock, inflight, fixIn, fixOut, treeIn, treeOut,
                       httpRequest, outcome, stopper, reactor, tracking>>

NextBreaker ==
    \/ Locate
    \/ Render
    \/ GetCacheBreaker
    \/ \E f \in Shared : ReadThrough(f)
    \/ \E f \in Writable : \E bytes \in ContentsFor(f) : WriteFile(f, bytes)
    \/ \E f \in Writable : DeleteFile(f)
    \/ Tick

SpecBreaker == Init /\ [][NextBreaker]_vars

\* what a render of style.css made in this state gives
RenderNow ==
    _getProcessedCSS(fileCache, cssCache, fs, clock, CssSite, CssRequest, CssPath)

\* C23 as claimed: the cachebreaker getCacheBreaker returned is the md5 hex
\* digest of the processed content that a render made at that moment returns.
C23_BreakerOfServedContent ==
    (last.op = "getCacheBreaker" /\ last.ok) =>
        \E r \in {RenderNow} : r.ok => last.value = <<md5hexdigest(r.value)>>

\* C23 fails here: getCacheBreaker returned the digest of the entry, and a
\* render made now runs _process and returns content with another digest.
C23_Witness ==
    /\ last.op = "getCacheBreaker" /\ last.ok /\ last.hadEntry
    /\ last.value = <<cssCache[CssPath].digest>>
    /\ \E r \in {RenderNow} :
          r.ok /\ r.ran = 1 /\ last.value # <<md5hexdigest(r.value)>>

-----------------------------------------------------------------------------
(* Lookup in trees that hold a DynamicBetterResource, whose getChild       *)
(* answers childResource for every segment that is not registered          *)

Dynamic(kids) == Node("DynamicBetterResource", FALSE, kids, NoPath, NoText)

DynamicRoot == <<Dynamic(NoChildren)>>
DynamicWithHello == <<Dynamic(Hello :> 2), Leaf>>
HelloDynamic == <<NonLeaf(Hello :> 2), Dynamic(Child :> 3), Leaf>>

DynamicTrees == {DynamicRoot, DynamicWithHello, HelloDynamic}

InitDynamic ==
    /\ fs = InitFiles
    /\ clock = 0
    /\ fileCache = NoEntries
    /\ cssCache = NoEntries
    /\ last = NoCall("init")
    /\ inflight = 0
    /\ fixIn = NotUnderTest /\ fixOut = NotUnderTest
    /\ treeIn \in [tree : DynamicTrees, postpath : Postpaths]
    /\ treeOut = [ran |-> FALSE]
    /\ httpRequest = NotUnderTest /\ outcome = NotUnderTest
    /\ stopper = NotUnderTest /\ reactor = NotUnderTest /\ tracking = NotUnderTest

SpecDynamic == InitDynamic /\ [][NextTree]_vars

\* a call of getChildWithDefault on a BetterResource for a segment that is
\* not among its registered children
Unregistered(c) ==
    /\ c.resource.kind \in {"BetterResource", "DynamicBetterResource"}
    /\ c.path \notin DOMAIN children(treeIn.tree, c.resource)

-----------------------------------------------------------------------------
(* A client that follows the redirects of a tree.  The Location of a       *)
(* RedirectingResource comes back as the URI of the client's next request  *)
(* line; twisted.web.http.Request.requestReceived splits the URI at its    *)
(* first "?" into the path and the query, and server.Request.process makes *)
(* postpath of path[1:].split('/').                                        *)

\* how many redirects the client follows
MaxHops == 2

QMARK == Lit("?")

\* the query strings a request line carries: none, or "?x=1"
Queries == {<<>>, <<QMARK, Lit("x=1")>>}

\* the path of a URI: uri.split('?', 1)[0]
PathOfUri(uri) ==
    IF Find(uri, <<QMARK>>) = 0 THEN uri
    ELSE SubSeq(uri, 1, Find(uri, <<QMARK>>) - 1)

\* the request that requestReceived and process make of a request line
ReceivedRequest(uri) ==
    Request(Split(Tail_(PathOfUri(uri), 2)), <<>>, uri, PathOfUri(uri))

InitRedirect ==
    /\ fs = InitFiles
    /\ clock = 0
    /\ fileCache = NoEntries
    /\ cssCache = NoEntries
    /\ last = NoCall("init")
    /\ inflight = 0
    /\ fixIn = NotUnderTest /\ fixOut = NotUnderTest
    /\ \E tree \in Trees, postpath \in Postpaths, query \in Queries :
          treeIn = [tree |-> tree, uri |-> UriOf(postpath) \o query]
    /\ treeOut = [ran |-> FALSE, hops |-> 0]
    /\ httpRequest = NotUnderTest /\ outcome = NotUnderTest
    /\ stopper = NotUnderTest /\ reactor = NotUnderTest /\ tracking = NotUnderTest

\* the request line arrives: site.getResourceFor(request)
Receive ==
    /\ ~treeOut.ran
    /\ treeOut' = [ran |-> TRUE, hops |-> treeOut.hops,
                   res |-> getChildForRequest(treeIn.tree, fs,
                               NodeResource(treeIn.tree, 1),
                               ReceivedRequest(treeIn.uri))]
    /\ last' = NoCall("lookup")
    /\ UNCHANGED <<fs, clock, fileCache, cssCache, inflight, fixIn, fixOut, treeIn,
                   httpRequest, outcome, stopper, reactor, tracking>>

\* the client follows the redirect: its next request line is the Location
Follow ==
    /\ treeOut.ran
    /\ treeOut.res.kind = "RedirectingResource"
    /\ treeOut.hops < MaxHops
    /\ treeIn' = [treeIn EXCEPT !.uri = treeOut.res.location]
    /\ treeOut' = [ran |-> FALSE, hops |-> treeOut.hops + 1]
    /\ last' = NoCall("follow")
    /\ UNCHANGED <<fs, clock, fileCache, cssCache, inflight, fixIn, fixOut,
                   httpRequest, outcome, stopper, reactor, tracking>>

NextRedirect ==
    \/ Receive
    \/ Follow

SpecRedirect == InitRedirect /\ [][NextRedirect]_vars

\* C25 as claimed: the target of a redirect resolves, in the same tree, to a
\* resource that is neither a 404 page nor another redirect.
C25_RedirectTargetIsServed ==
    (treeOut.ran /\ treeOut.hops >= 1) =>
        /\ ~IsErrorPage(treeOut.res)
        /\ treeOut.res.kind # "RedirectingResource"

\* C25 fails here: the request line had a query string, "/" was appended
\* after the query, and the target of the redirect was redirected again.
C25_Witness ==
    /\ treeOut.ran /\ treeOut.hops = MaxHops
    /\ treeOut.res.kind = "RedirectingResource"
    /\ Find(treeIn.uri, <<QMARK>>) # 0
    /\ treeOut.res.location = treeIn.uri \o <<SLASH>>
    /\ treeIn.uri[Len(treeIn.uri)] = SLASH

-----------------------------------------------------------------------------
(* Requests for style.css in flight at the same time *)

\* the url(...) of the entry's content whose file was there when the content
\* was computed
FoundMatches == SelectSeq(EntryMatches, LAMBDA m : BreakerOf(m) # NOTFOUND)

\* C26: whatever the order in which the requests in flight are rendered and
\* the files change, the entry of style.css is the work of one computation
\* (its digest is the digest of its processed content, and its references
\* are the files that content gives a hash for, with those hashes), and a
\* render that returned has returned exactly the processed content of the
\* entry now stored.
C26_EntryOfOneComputation ==
    /\ HasEntry =>
          /\ cssCache[CssPath].digest = md5hexdigest(cssCache[CssPath].processed)
          /\ cssCache[CssPath].references
                = [k \in 1..Len(FoundMatches) |->
                      ReferencedFile(FileOf(FoundMatches[k]), BreakerOf(FoundMatches[k]))]
    /\ (last.op = "render" /\ last.ok) =>
          /\ HasEntry
          /\ last.value = cssCache[CssPath].processed

\* C26 happens: with another request for style.css still in flight, a render
\* found the entry of an earlier request stale, ran _process and overwrote it
\* with an entry whose references are other than they would be had nothing
\* changed.
C26_Witness ==
    /\ last.op = "render" /\ last.ok /\ last.hadEntry /\ last.ran = 1
    /\ inflight >= 1
    /\ HasEntry
    /\ last.value = cssCache[CssPath].processed
    /\ Len(cssCache[CssPath].references) = 2
    /\ cssCache[CssPath].references[2].lasthash = md5hexdigest(PngReplacement)

-----------------------------------------------------------------------------
(* special.WaitResource.  The value of a query argument is a sequence of   *)
(* one-character strings.  The clock is a twisted.internet.task.Clock: its *)
(* time in seconds and its delayed calls.                                  *)

DigitValue ==
    ("0" :> 0) @@ ("1" :> 1) @@ ("2" :> 2) @@ ("3" :> 3) @@ ("4" :> 4)
    @@ ("5" :> 5) @@ ("6" :> 6) @@ ("7" :> 7) @@ ("8" :> 8) @@ ("9" :> 9)

\* str.strip() of the blanks at both ends
RECURSIVE strip(_)
strip(s) ==
    IF s # <<>> /\ Head(s) = " " THEN strip(Tail(s))
    ELSE IF s # <<>> /\ s[Len(s)] = " " THEN strip(SubSeq(s, 1, Len(s) - 1))
    ELSE s

\* the number a run of decimal digits writes, most significant first
RECURSIVE DigitsLoop(_, _)
DigitsLoop(s, acc) ==
    IF s = <<>> THEN acc
    ELSE DigitsLoop(Tail(s), 10 * acc + DigitValue[Head(s)])

\* int(s) of a str: blanks around, a sign, one decimal digit or more;
\* anything else raises ValueError
int(s) ==
    LET t == strip(s)
        signed == t # <<>> /\ Head(t) \in {"+", "-"}
        digits == IF signed THEN Tail(t) ELSE t
    IN  IF digits = <<>> \/ \E i \in 1..Len(digits) : digits[i] \notin DOMAIN DigitValue
        THEN [ok |-> FALSE, value |-> 0]
        ELSE [ok |-> TRUE,
              value |-> IF signed /\ Head(t) = "-" THEN 0 - DigitsLoop(digits, 0)
                        ELSE DigitsLoop(digits, 0)]

\* A variant that lets a number below 0 or above 600 through
stringToWaitTime_M1(s) ==
    IF ~int(s).ok THEN 30 ELSE int(s).value

\* special.stringToWaitTime
stringToWaitTime(s) ==
    IF ~int(s).ok THEN 30
    ELSE IF ~(0 <= int(s).value /\ int(s).value <= 60 * 10) THEN 30
    ELSE int(s).value

\* special.requestToWaitTime: request.args['wait'][0], and 30 on KeyError
\* and on IndexError
requestToWaitTime(request) ==
    IF "wait" \notin DOMAIN request.args THEN 30
    ELSE IF request.args["wait"] = <<>> THEN 30
    ELSE stringToWaitTime(request.args["wait"][1])

blankGif == <<Lit("GIF89a 1x1")>>

\* "// Done after %d seconds." % (waitTime,)
DoneAfter(waitTime) == <<Lit("// Done after "), Dec(waitTime), Lit(" seconds.")>>

\* clock.callLater(delay, f): one more delayed call; f is writeAndFinish, for
\* the request and the body it closes over
callLater(clk, delay, request, data) ==
    [clk EXCEPT !.calls = Append(@,
        [time |-> clk.seconds + delay, request |-> request, data |-> data,
         cancelled |-> FALSE, called |-> FALSE])]

\* DelayedCall.cancel() of the call dc
cancel(clk, dc) ==
    IF clk.calls[dc].cancelled THEN [ok |-> FALSE, raised |-> <<"AlreadyCancelled">>, clock |-> clk]
    ELSE IF clk.calls[dc].called THEN [ok |-> FALSE, raised |-> <<"AlreadyCalled">>, clock |-> clk]
    ELSE [ok |-> TRUE, raised |-> None,
          clock |-> [clk EXCEPT !.calls[dc].cancelled = TRUE]]

\* WaitResource.render_GET and render_POST, for the request at index k of
\* requests: the headers, the delayed call, and the errback on notifyFinish
\* that cancels it.  Both return NOT_DONE_YET.
WaitRender(clk, request, k) ==
    LET waitTime == requestToWaitTime(request)
        isGet == request.method = "GET"
        nocache == setNoCacheNoStoreHeaders(request)
        typed == IF isGet
                 THEN SetOn(nocache, "content-type", <<Str(<<Lit("image/gif")>>)>>)
                 ELSE nocache
        headed == SetOn(typed, "access-control-allow-origin", <<Str(<<Lit("*")>>)>>)
    IN  [clock |-> callLater(clk, waitTime, k,
                             IF isGet THEN blankGif ELSE DoneAfter(waitTime)),
         request |-> [headed EXCEPT !.notifications =
                                       Append(@, Len(clk.calls) + 1)]]

\* request.write(data) and request.finish(), as the delayed call runs them
\* at the time now: finish fires the deferreds of notifyFinish with None,
\* which passes the errbacks by
writeAndFinish(request, data, now) ==
    [request EXCEPT !.written = Append(@, data),
                    !.finished = @ + 1,
                    !.finishedAt = Append(@, now),
                    !.notifications = <<>>]

\* the delayed calls that are due and have been neither run nor cancelled
Due(clk) ==
    {dc \in 1..Len(clk.calls) :
        /\ clk.calls[dc].time <= clk.seconds
        /\ ~clk.calls[dc].called /\ ~clk.calls[dc].cancelled}

\* the first of a set of calls by time, and by the order of callLater
FirstOf(clk, dcs) ==
    CHOOSE dc \in dcs : \A other \in dcs :
        \/ clk.calls[dc].time < clk.calls[other].time
        \/ clk.calls[dc].time = clk.calls[other].time /\ dc <= other

\* the loop of Clock.advance: the due calls are run, the earliest first
RECURSIVE RunDue(_, _)
RunDue(clk, requests) ==
    IF Due(clk) = {} THEN [clock |-> clk, requests |-> requests]
    ELSE LET dc == FirstOf(clk, Due(clk))
             k == clk.calls[dc].request
         IN  RunDue([clk EXCEPT !.calls[dc].called = TRUE],
                    [requests EXCEPT ![k] =
                        writeAndFinish(@, clk.calls[dc].data, clk.seconds)])

\* the errbacks of the request's notifyFinish deferreds run, each cancelling
\* its delayed call; an exception of cancel is kept as what was raised
RECURSIVE Errbacks(_, _, _)
Errbacks(clk, dcs, raised) ==
    IF dcs = <<>> THEN [clock |-> clk, raised |-> raised]
    ELSE LET c == cancel(clk, Head(dcs))
         IN  Errbacks(c.clock, Tail(dcs), IF c.ok THEN raised ELSE c.raised)

\* how many requests the WaitResource gets
MaxRequests == 1

\* up to when the clock moves by single seconds; after that it moves to the
\* time of the next delayed call
MaxIdle == 2

NoArgs == [n \in {} |-> <<>>]

\* the values of ?wait= the requests carry, each with the wait time that
\* Python's int and the range 0..600 make of it
WaitCases ==
    {<<<<"0">>, 0>>, <<<<"2">>, 2>>, <<<<"3", "0">>, 30>>,
     <<<<"6", "0", "0">>, 600>>, <<<<"6", "0", "1">>, 30>>,
     <<<<"-", "1">>, 30>>, <<<<"+", "1">>, 1>>, <<<<" ", "2">>, 2>>,
     <<<<"1", ".", "5">>, 30>>, <<<<"a">>, 30>>, <<<<>>, 30>>}

WaitArgs ==
    {NoArgs, "wait" :> <<>>, "other" :> <<<<"5">>>>, "wait" :> << <<"2">>, <<"a">> >>}
    \cup {"wait" :> <<c[1]>> : c \in WaitCases}

InitWait ==
    /\ fs = InitFiles
    /\ clock = 0
    /\ fileCache = NoEntries
    /\ cssCache = NoEntries
    /\ last = NoCall("init")
    /\ inflight = 0
    /\ fixIn = NotUnderTest /\ fixOut = NotUnderTest
    /\ treeIn = NotUnderTest /\ treeOut = NotUnderTest
    /\ httpRequest = <<>>
    /\ outcome = [op |-> "init", raised |-> None]
    /\ stopper = NotUnderTest
    /\ reactor = [seconds |-> 0, calls |-> <<>>]
    /\ tracking = NotUnderTest

\* A GET or a POST of the WaitResource arrives and is rendered
RenderWait(method, args) ==
    /\ Len(httpRequest) < MaxRequests
    /\ \E r \in {WaitRender(reactor,
                    [method |-> method, args |-> args,
                     responseHeaders |-> NoHeaders, written |-> <<>>,
                     finished |-> 0, finishedAt |-> <<>>,
                     disconnected |-> FALSE, notifications |-> <<>>,
                     renderedAt |-> reactor.seconds],
                    Len(httpRequest) + 1)} :
          /\ reactor' = r.clock
          /\ httpRequest' = Append(httpRequest, r.request)
    /\ outcome' = [op |-> "render", raised |-> None]
    /\ UNCHANGED <<fs, clock, fileCache, cssCache, last, inflight, fixIn, fixOut,
                   treeIn, treeOut, stopper, tracking>>

\* Clock.advance(amount)
Advance(amount) ==
    /\ reactor.seconds + amount <= MaxIdle
    /\ \E r \in {RunDue([reactor EXCEPT !.seconds = @ + amount], httpRequest)} :
          /\ reactor' = r.clock
          /\ httpRequest' = r.requests
    /\ outcome' = [op |-> "advance", raised |-> None]
    /\ UNCHANGED <<fs, clock, fileCache, cssCache, last, inflight, fixIn, fixOut,
                   treeIn, treeOut, stopper, tracking>>

\* the delayed calls still to run
Pending == {dc \in 1..Len(reactor.calls) :
               ~reactor.calls[dc].called /\ ~reactor.calls[dc].cancelled}

\* Clock.advance up to the time of the next delayed call
AdvanceToNext ==
    /\ Pending # {}
    /\ reactor.calls[FirstOf(reactor, Pending)].time > reactor.seconds
    /\ \E r \in {RunDue([reactor EXCEPT
                           !.seconds = reactor.calls[FirstOf(reactor, Pending)].time],
                        httpRequest)} :
          /\ reactor' = r.clock
          /\ httpRequest' = r.requests
    /\ outcome' = [op |-> "advance", raised |-> None]
    /\ UNCHANGED <<fs, clock, fileCache, cssCache, last, inflight, fixIn, fixOut,
                   treeIn, treeOut, stopper, tracking>>

\* The client of request k goes away while the request is not finished: the
\* channel calls request.connectionLost, which fires the deferreds of
\* notifyFinish with a failure
ConnectionLost(k) ==
    /\ ~httpRequest[k].disconnected
    /\ httpRequest[k].finished = 0
    /\ \E r \in {Errbacks(reactor, httpRequest[k].notifications, None)} :
          /\ reactor' = r.clock
          /\ outcome' = [op |-> "connectionLost", raised |-> r.raised]
    /\ httpRequest' = [httpRequest EXCEPT ![k].disconnected = TRUE,
                                          ![k].notifications = <<>>]
    /\ UNCHANGED <<fs, clock, fileCache, cssCache, last, inflight, fixIn, fixOut,
                   treeIn, treeOut, stopper, tracking>>

NextWait ==
    \/ \E method \in {"GET", "POST"} : \E args \in WaitArgs : RenderWait(method, args)
    \/ \E amount \in {0, 1} : Advance(amount)
    \/ AdvanceToNext
    \/ \E k \in 1..Len(httpRequest) : ConnectionLost(k)

SpecWait == InitWait /\ [][NextWait]_vars

\* the wait time the arguments of a request ask for: 30 without a "wait"
\* argument, else what WaitCases says of its first value
Expected(args) ==
    IF "wait" \notin DOMAIN args THEN 30
    ELSE IF args["wait"] = <<>> THEN 30
    ELSE (CHOOSE c \in WaitCases : c[1] = args["wait"][1])[2]

\* the delayed calls made for request k
CallsOf(k) == {dc \in 1..Len(reactor.calls) : reactor.calls[dc].request = k}

\* the body of the response to the request
BodyOf(request) ==
    IF request.method = "GET" THEN blankGif ELSE DoneAfter(Expected(request.args))

\* C27: every request of the WaitResource has one delayed call, set for
\* renderedAt + the wait time, which is an integer in 0..600 and is 30 when
\* the wait argument is missing, is no integer or is out of range.  The body
\* is written and the request finished at most once, and exactly when that
\* call has run, at or after its time, with the client still there; a call
\* whose time has passed has run unless it was cancelled.  Once the client
\* has gone before the call ran, the call is cancelled, and nothing is
\* written and the request is never finished; cancel never raises.
C27_WrittenOnceOrCancelled ==
    /\ outcome.raised = None
    /\ \A k \in 1..Len(httpRequest) :
          /\ Cardinality(CallsOf(k)) = 1
          /\ \A dc \in CallsOf(k) :
                LET c == reactor.calls[dc]
                    r == httpRequest[k]
                IN  /\ c.time - r.renderedAt = Expected(r.args)
                    /\ c.time - r.renderedAt \in 0..600
                    /\ Len(r.written) = r.finished /\ r.finished <= 1
                    /\ (r.finished = 1) = c.called
                    /\ c.called =>
                          /\ r.written = <<BodyOf(r)>>
                          /\ ~r.disconnected /\ ~c.cancelled
                          /\ Len(r.finishedAt) = 1 /\ r.finishedAt[1] >= c.time
                          /\ r.finishedAt[1] <= reactor.seconds
                    /\ (~c.cancelled /\ c.time < reactor.seconds) => c.called
                    /\ r.disconnected = c.cancelled
                    /\ r.disconnected => (r.written = <<>> /\ r.finished = 0)

\* C27 happens: a POST with wait=601 was answered "// Done after 30 seconds."
\* once, 30 seconds after it was rendered.
C27_Witness ==
    /\ Len(httpRequest) = 1
    /\ httpRequest[1].method = "POST"
    /\ httpRequest[1].args = ("wait" :> << <<"6", "0", "1">> >>)
    /\ httpRequest[1].written = <<DoneAfter(30)>>
    /\ httpRequest[1].finished = 1
    /\ httpRequest[1].finishedAt = <<httpRequest[1].renderedAt + 30>>
    /\ reactor.calls[1].called
    /\ "access-control-allow-origin" \in DOMAIN httpRequest[1].responseHeaders

-----------------------------------------------------------------------------
(* untwist.ConnectionTrackingSite and ConnectionTrackingHTTPChannel.  A    *)
(* channel is known by its number, in the order the site built them; of    *)
(* each the model keeps how far its connection has come.                   *)

\* how many channels the site builds
MaxChannels == 4

\* set.add(x)
add(connections, ch) == connections \cup {ch}

\* A variant of set.remove that leaves the set as it is
remove_M1(connections, ch) ==
    IF ch \notin connections THEN [raised |-> <<"KeyError">>, set |-> connections]
    ELSE [raised |-> None, set |-> connections]

\* set.remove(x), which raises KeyError for what is not in the set
remove(connections, ch) ==
    IF ch \notin connections THEN [raised |-> <<"KeyError">>, set |-> connections]
    ELSE [raised |-> None, set |-> connections \ {ch}]

\* ConnectionTrackingSite.__init__: self.connections = set()
InitTracking ==
    /\ fs = InitFiles
    /\ clock = 0
    /\ fileCache = NoEntries
    /\ cssCache = NoEntries
    /\ last = NoCall("init")
    /\ inflight = 0
    /\ fixIn = NotUnderTest /\ fixOut = NotUnderTest
    /\ treeIn = NotUnderTest /\ treeOut = NotUnderTest
    /\ httpRequest = NotUnderTest
    /\ outcome = [op |-> "init", raised |-> None]
    /\ stopper = NotUnderTest /\ reactor = NotUnderTest
    /\ tracking = [connections |-> {}, channels |-> <<>>]

\* site.buildProtocol(addr): a new ConnectionTrackingHTTPChannel, whose
\* factory is the site
buildProtocol ==
    /\ Len(tracking.channels) < MaxChannels
    /\ tracking' = [tracking EXCEPT !.channels = Append(@, "built")]
    /\ outcome' = [op |-> "buildProtocol", raised |-> None]
    /\ UNCHANGED <<fs, clock, fileCache, cssCache, last, inflight, fixIn, fixOut,
                   treeIn, treeOut, httpRequest, stopper, reactor>>

\* ConnectionTrackingHTTPChannel.connectionMade, which the transport calls
\* once, when the connection of the channel is there
connectionMade(ch) ==
    /\ tracking.channels[ch] = "built"
    /\ tracking' = [tracking EXCEPT !.channels[ch] = "made",
                                    !.connections = add(@, ch)]
    /\ outcome' = [op |-> "connectionMade", raised |-> None]
    /\ UNCHANGED <<fs, clock, fileCache, cssCache, last, inflight, fixIn, fixOut,
                   treeIn, treeOut, httpRequest, stopper, reactor>>

\* ConnectionTrackingHTTPChannel.connectionLost, which the transport calls
\* once, after connectionMade
connectionLost(ch) ==
    /\ tracking.channels[ch] = "made"
    /\ tracking' = [tracking EXCEPT !.channels[ch] = "lost",
                                    !.connections = remove(@, ch).set]
    /\ outcome' = [op |-> "connectionLost",
                   raised |-> remove(tracking.connections, ch).raised]
    /\ UNCHANGED <<fs, clock, fileCache, cssCache, last, inflight, fixIn, fixOut,
                   treeIn, treeOut, httpRequest, stopper, reactor>>

NextTracking ==
    \/ buildProtocol
    \/ \E ch \in 1..Len(tracking.channels) : connectionMade(ch)
    \/ \E ch \in 1..Len(tracking.channels) : connectionLost(ch)

SpecTracking == InitTracking /\ [][NextTracking]_vars

\* C28: site.connections is exactly the set of the channels whose connection
\* was made and is not lost, and neither call raises.
C28_ConnectionsAreOpenChannels ==
    /\ tracking.connections
          = {ch \in 1..Len(tracking.channels) : tracking.channels[ch] = "made"}
    /\ outcome.raised = None

\* C28 happens: of four channels the first and the third were made and lost,
\* the second is made, and the fourth has no connection yet.
C28_Witness ==
    /\ tracking.channels = <<"lost", "made", "lost", "built">>
    /\ tracking.connections = {2}
    /\ outcome.op = "connectionLost"

-----------------------------------------------------------------------------
(* The warnings in the output of fixUrls *)

\* where the output of fixUrls holds the warning
BannersAt == {i \in 1..Len(fixOut.content) : fixOut.content[i][1] = "banner"}

\* C29 as claimed: the output of fixUrls holds the warning once when some
\* relative reference got no cachebreaker, and not at all when every one got
\* its cachebreaker, however many references there are and wherever the ones
\* without a cachebreaker stand.
C29_OneBanner ==
    (fixOut.ran /\ fixOut.ok) =>
        Cardinality(BannersAt) = IF MissingHrefs # <<>> THEN 1 ELSE 0

\* C29 fails here: the reference without a cachebreaker stands before another
\* reference, and the output holds the warning twice.
C29_Witness ==
    /\ fixOut.ran /\ fixOut.ok
    /\ fixIn.content = RelMissing \o RelTwo
    /\ fixIn.request = CssRequest
    /\ MissingHrefs = <<HrefOf(RelMissing)>>
    /\ Cardinality(BannersAt) = 2
    /\ fixOut.content[Len(fixOut.content)] = fixOut.content[Len(fixOut.content) - 1]

-----------------------------------------------------------------------------
(* A client that keeps the cookies of one CookieInstaller over several     *)
(* requests.  Of the first call of getSet the model keeps the scheme, what *)
(* was returned and whether a cookie was set.                              *)

\* how many requests the client makes
MaxCalls == 3

\* The cookies the client holds after a response: those it held, with the
\* cookies the response set in place of those of the same name.  Of each the
\* client keeps the value and the Secure flag.
RECURSIVE Store(_, _)
Store(jar, cookies) ==
    IF cookies = <<>> THEN jar
    ELSE Store([n \in DOMAIN jar \cup {cookies[1].name} |->
                   IF n = cookies[1].name
                   THEN [value |-> cookies[1].value, secure |-> cookies[1].secure]
                   ELSE jar[n]],
               Tail(cookies))

\* The cookies the client sends with a request: all it holds over HTTPS, and
\* over HTTP those without the Secure flag
Sent(jar, secure) ==
    [n \in {m \in DOMAIN jar : secure \/ ~jar[m].secure} |-> jar[n].value]

\* the client begins with any cookies under the two names, none of them with
\* the Secure flag
InitSession ==
    /\ fs = InitFiles /\ clock = 0 /\ fileCache = NoEntries /\ cssCache = NoEntries
    /\ last = NoCall("init") /\ inflight = 0
    /\ fixIn = NotUnderTest /\ fixOut = NotUnderTest
    /\ treeIn = NotUnderTest /\ treeOut = NotUnderTest
    /\ \E secure \in BOOLEAN, received \in ReceivedCookies, self \in Installers :
          /\ httpRequest = CookieRequest(secure, received)
          /\ outcome = [ran |-> FALSE, calls |-> 0, self |-> self, sess |-> <<>>,
                        jar |-> [n \in DOMAIN received |->
                                    [value |-> received[n], secure |-> FALSE]],
                        first |-> [sess |-> <<>>, secure |-> FALSE, set |-> FALSE]]
    /\ stopper = NotUnderTest /\ reactor = NotUnderTest /\ tracking = NotUnderTest

\* the installer's getSet is called on the request of the client, and the
\* client stores the cookies of the response
SessionGetSet ==
    /\ ~outcome.ran
    /\ \E rand \in Randoms :
       \E r \in {getSet(outcome.self, httpRequest, rand)} :
          /\ httpRequest' = r.request
          /\ outcome' = [outcome EXCEPT
                !.ran = TRUE, !.calls = @ + 1, !.sess = r.sess,
                !.jar = Store(@, r.request.cookies),
                !.first = IF outcome.calls = 0
                          THEN [sess |-> r.sess, secure |-> httpRequest.secure,
                                set |-> r.request.cookies # <<>>]
                          ELSE @]
    /\ UNCHANGED <<fs, clock, fileCache, cssCache, last, inflight, fixIn,
                   fixOut, treeIn, treeOut, stopper, reactor, tracking>>

\* The client sends its next request, over HTTP or HTTPS, with the cookies it
\* holds for that scheme
SessionNext ==
    /\ outcome.ran
    /\ outcome.calls < MaxCalls
    /\ \E secure \in BOOLEAN :
          httpRequest' = CookieRequest(secure, Sent(outcome.jar, secure))
    /\ outcome' = [outcome EXCEPT !.ran = FALSE]
    /\ UNCHANGED <<fs, clock, fileCache, cssCache, last, inflight, fixIn,
                   fixOut, treeIn, treeOut, stopper, reactor, tracking>>

NextSession ==
    \/ SessionGetSet
    \/ SessionNext

SpecSession == InitSession /\ [][NextSession]_vars

\* C30: when the first call of getSet set a cookie, every later call on a
\* request of the same scheme, to which the client sends its cookies back,
\* returns the 16 bytes the first call returned and sets no cookie.
C30_SessionIsStable ==
    (/\ outcome.ran /\ outcome.calls >= 2
     /\ outcome.first.set
     /\ httpRequest.secure = outcome.first.secure) =>
        /\ outcome.sess = outcome.first.sess
        /\ Len(outcome.sess) = 16
        /\ httpRequest.cookies = <<>>

\* C30 happens: the third request of a client whose first request came over
\* HTTPS with a cookie that does not decode; the second came over HTTP, and
\* the third, over HTTPS again, is given the bytes of the first.
C30_Witness ==
    /\ outcome.ran /\ outcome.calls = 3
    /\ outcome.first.set /\ outcome.first.secure /\ httpRequest.secure
    /\ outcome.first.sess = [i \in 1..16 |-> (37 * i + 11) % 256]
    /\ outcome.sess = outcome.first.sess
    /\ httpRequest.cookies = <<>>
    /\ InsecureName \in DOMAIN httpRequest.received_cookies
    /\ httpRequest.received_cookies[SecureName] = B64(outcome.first.sess)
=============================================================================
